---- MODULE Spec2Model ----
(***************************************************************************)
(* A model of muxfys: the lifecycle controller (New, Mount,                *)
(* UnmountOnDeath, Unmount, uploadCreated), the namespace callbacks of     *)
(* filesystem.go and the local byte-range cache.                           *)
(*                                                                         *)
(* Threads: the client (thread Main) calls the library API one call at a   *)
(* time; every UnmountOnDeath that installs a handler starts one           *)
(* goroutine (threads 1..MaxHandlers); kernel callbacks arrive while the   *)
(* fuse server is serving.  Time stamps (mtime, atime, ctime) are not      *)
(* modelled.                                                               *)
(***************************************************************************)
EXTENDS Integers, Sequences, FiniteSets, TLC

\* ------------------------------------------------------------------ bounds
MaxTargets == 2     \* targets in a Config
MaxHandlers == 2    \* signal-handling goroutines alive at the same time
MaxSignals == 2     \* death signals delivered in one run
MaxMounts == 2      \* successful Mount() calls in one run
MaxData == 1        \* bytes in one write
MaxSize == 2        \* size of a file
MaxHandles == 1     \* file handles open at the same time
MaxCallbacks == 2   \* callbacks the fuse server runs at the same time
MaxEntries == 3     \* entries of one directory
MaxOffset == 4      \* end of an interval given to the tracker

\* ------------------------------------------------------- program constants
SigChanCap == 2     \* make(chan os.Signal, 2)

Names == {"a", "b"}
Root == << >>
Paths == {<<n>> : n \in Names}
Bytes == {1, 2}     \* a hole of a sparse file reads as 0
RIdx == 1..MaxTargets
Handlers == 1..MaxHandlers   \* the goroutines UnmountOnDeath starts
Main == MaxHandlers + 1      \* the client's goroutine
CbThreads == 1..MaxCallbacks
Threads == {Main} \cup Handlers

\* ----------------------------------------------------------------- helpers
EmptyMap == << >>
Put(f, k, v) == [x \in (DOMAIN f) \cup {k} |-> IF x = k THEN v ELSE f[x]]
Del(f, k) == [x \in (DOMAIN f) \ {k} |-> f[x]]
Has(f, k) == k \in DOMAIN f

\* filepath.Dir / filepath.Base / filepath.Join on paths kept as sequences of
\* names; the root "" is the empty sequence.
Dir(p) == IF Len(p) = 0 THEN Root ELSE SubSeq(p, 1, Len(p) - 1)
Base(p) == IF Len(p) = 0 THEN "" ELSE p[Len(p)]
Join(d, n) == Append(d, n)

Max(a, b) == IF a >= b THEN a ELSE b
Min(a, b) == IF a <= b THEN a ELSE b

VARIABLES
  handle,          \* "none" | "ready" | "rejected": what New returned
  remotes,         \* fs.remotes: sequence of [write, cacheData, cacheIsTmp]
  writeRemote,     \* fs.writeRemote: 0 (nil) or an index into remotes
  mounted,         \* fs.mounted
  server,          \* fs.server: 0 (nil) or the number of the mount that made it
  mountCount,      \* successful mounts so far
  handlingSignals, \* fs.handlingSignals
  deathSignals,    \* fs.deathSignals: 0 (nil) or the handler it was made for
  ignoreSignals,   \* fs.ignoreSignals: 0 (nil) or the handler it was made for
  mutex,           \* fs.mutex: -1 (free) or the thread holding it
  upc,             \* per thread: position inside Unmount
  uframe,          \* per thread: locals of its Unmount call
  hpc,             \* per handler goroutine: position
  sigbuf,          \* per handler: signals buffered in its deathSignals channel
  notify,          \* per handler: its channel is registered with signal.Notify
  signalsSent,     \* death signals delivered so far
  exitCode,        \* -1, or the status os.Exit was called with
  lastCall,        \* the client's last completed API call and its result
  lastUnmount,     \* what the last Unmount that returned since the last
                   \* Mount did
  dirs,            \* fs.dirs: path -> sequence of remotes
  dirContents,     \* fs.dirContents: path -> sequence of [name, mode]
  files,           \* fs.files: path -> attr
  fileToRemote,    \* fs.fileToRemote: path -> remote
  createdFiles,    \* fs.createdFiles (its key set)
  createdDirs,     \* fs.createdDirs (its key set)
  remoteObjs,      \* per remote: object key -> content
  localFiles,      \* per remote: the files of its cache directory
  tracker,         \* per remote: CacheTracker.cached
  uploadLog,       \* the uploadFile calls of the Unmount running or last run
                   \* since the last Mount: [remote, path, ok]
  handles,         \* open file handles: [id, path, r, write, stale]
  written,         \* path -> the last Write to it: [off, data, mount, um]
  lastRead,        \* what the Read that has just returned gave
  cb,              \* per callback goroutine: the callback it is inside and
                   \* where: [op, pc, name, newName, offset]
  mapMutex,        \* fs.mapMutex: 0 (free) or the goroutine holding it
  fmutex           \* local path -> the goroutine holding its file lock

lifeVars == <<handle, remotes, writeRemote, mounted, server, mountCount,
              handlingSignals, deathSignals, ignoreSignals, mutex, upc, uframe,
              hpc, sigbuf, notify, signalsSent, exitCode, lastCall, lastUnmount>>
nsVars == <<dirs, dirContents, files, fileToRemote, createdFiles, createdDirs>>
envVars == <<remoteObjs, localFiles, tracker, uploadLog, handles>>
rtVars == <<written, lastRead>>
cbVars == <<cb, mapMutex, fmutex>>
vars == <<lifeVars, nsVars, envVars, rtVars, cbVars>>

\* ------------------------------------------------------------ configuration
\* Target: the fields CreateRemote reads.  Target = "" stands for a Target
\* CreateRemote rejects.
Targets == [Target : {"", "url"}, CacheData : BOOLEAN, CacheDirSet : BOOLEAN,
            Write : BOOLEAN]
Configs == UNION {[1..n -> Targets] : n \in 0..MaxTargets}

\* Target.CreateRemote: the remote built from a Target.
CreateRemote(t) ==
  LET cacheData == t.CacheData \/ t.CacheDirSet \/ t.Write
  IN [write |-> t.Write,
      cacheData |-> cacheData,
      cacheIsTmp |-> cacheData /\ ~t.CacheDirSet]

CreateRemoteFails(t) == t.Target = ""

\* The loop of New over config.Targets, from target i on: the remotes and the
\* writeRemote built so far, and how the loop ended.
RECURSIVE NewLoop(_, _, _, _)
NewLoopNoCheck(targets, i, rs, wr) ==
  IF i > Len(targets) THEN [err |-> "", remotes |-> rs, writeRemote |-> wr]
  ELSE IF CreateRemoteFails(targets[i])
       THEN [err |-> "no Target defined", remotes |-> rs, writeRemote |-> wr]
  ELSE LET r == CreateRemote(targets[i])
           rs2 == Append(rs, r)
       IN NewLoop(targets, i + 1, rs2, IF r.write THEN Len(rs2) ELSE wr)

NewLoop(targets, i, rs, wr) ==
  IF i > Len(targets) THEN [err |-> "", remotes |-> rs, writeRemote |-> wr]
  ELSE IF CreateRemoteFails(targets[i])
       THEN [err |-> "no Target defined", remotes |-> rs, writeRemote |-> wr]
  ELSE LET r == CreateRemote(targets[i])
           rs2 == Append(rs, r)
       IN IF r.write /\ wr # 0
          THEN [err |-> "you can't have more than one writeable target",
                remotes |-> << >>, writeRemote |-> 0]
          ELSE NewLoop(targets, i + 1, rs2, IF r.write THEN Len(rs2) ELSE wr)

NoUnmount == [by |-> -1, err |-> "", ok |-> FALSE, kerr |-> FALSE,
              fails |-> 0, skip |-> FALSE, start |-> {}, residue |-> {},
              log |-> {}, wasMounted |-> FALSE, afterOK |-> FALSE]
NoFrame == [skip |-> FALSE, kerr |-> FALSE, fails |-> 0, start |-> {},
            residue |-> {}, wasMounted |-> FALSE, afterOK |-> FALSE]
NoCall == [op |-> "", err |-> ""]
NoRead == [path |-> << >>, off |-> 0, size |-> 0, status |-> "", data |-> << >>,
           mount |-> 0]

NoCallback == [op |-> "none", pc |-> "idle", name |-> Root, newName |-> Root,
               offset |-> 0]

\* A step other than a Read: no reply of a Read is at hand after it.
NoReadReply == written' = written /\ lastRead' = NoRead

\* The remote stores before the program starts: the first target's store
\* holds one object "a" of two bytes, the others hold nothing.
InitObjs == [r \in RIdx |-> IF r = 1 THEN [p \in {<<"a">>} |-> <<2, 2>>] ELSE EmptyMap]

Init ==
  /\ handle = "none"
  /\ remotes = << >>
  /\ writeRemote = 0
  /\ mounted = FALSE
  /\ server = 0
  /\ mountCount = 0
  /\ handlingSignals = FALSE
  /\ deathSignals = 0
  /\ ignoreSignals = 0
  /\ mutex = -1
  /\ upc = [t \in Threads |-> "idle"]
  /\ uframe = [t \in Threads |-> NoFrame]
  /\ hpc = [h \in Handlers |-> "unborn"]
  /\ sigbuf = [h \in Handlers |-> 0]
  /\ notify = [h \in Handlers |-> FALSE]
  /\ signalsSent = 0
  /\ exitCode = -1
  /\ lastCall = NoCall
  /\ lastUnmount = NoUnmount
  /\ dirs = EmptyMap
  /\ dirContents = EmptyMap
  /\ files = EmptyMap
  /\ fileToRemote = EmptyMap
  /\ createdFiles = {}
  /\ createdDirs = {}
  /\ remoteObjs = InitObjs
  /\ localFiles = [r \in RIdx |-> EmptyMap]
  /\ tracker = [r \in RIdx |-> EmptyMap]
  /\ uploadLog = {}
  /\ handles = {}
  /\ written = EmptyMap
  /\ lastRead = NoRead
  /\ cb = [c \in CbThreads |-> NoCallback]
  /\ mapMutex = 0
  /\ fmutex = EmptyMap

\* os.Exit ends the process: nothing runs after it.
Running == exitCode = -1
ClientIdle == upc[Main] = "idle"

\* New(config).  A handle that came with an error is not used ("rejected").
NewCall(config) ==
  /\ handle = "none"
  /\ IF Len(config) = 0
     THEN /\ handle' = "rejected"
          /\ lastCall' = [op |-> "New", err |-> "no targets provided"]
          /\ UNCHANGED <<remotes, writeRemote>>
     ELSE LET res == NewLoop(config, 1, << >>, 0)
          IN /\ handle' = IF res.err = "" THEN "ready" ELSE "rejected"
             /\ remotes' = res.remotes
             /\ writeRemote' = res.writeRemote
             /\ lastCall' = [op |-> "New", err |-> res.err]
  /\ UNCHANGED <<mounted, server, mountCount, handlingSignals, deathSignals,
                 ignoreSignals, mutex, upc, uframe, hpc, sigbuf, notify,
                 signalsSent, exitCode, lastUnmount>>
  /\ UNCHANGED <<nsVars, envVars>>
  /\ NoReadReply
  /\ UNCHANGED cbVars

New == \E config \in Configs : NewCall(config)

\* ------------------------------------------------------------ the remotes
\* remote.getRemotePath / getLocalPath: every remote has its own key space and
\* its own cache directory, so a mount-relative path names the object in
\* remoteObjs[r] and the cache file in localFiles[r].
NameOrder == <<"a", "b", "d", "e">>

\* RemoteAccessor.ListEntries(dir) on remote r: one entry per object directly
\* under dir and one (a name ending in "/") per sub-directory, in name order.
RECURSIVE ListFrom(_, _, _)
ListFrom(r, dir, i) ==
  IF i > Len(NameOrder) THEN << >>
  ELSE LET n == NameOrder[i]
           p == Join(dir, n)
           keys == DOMAIN remoteObjs[r]
           fileE == IF p \in keys
                    THEN <<[name |-> n, isDir |-> FALSE,
                            size |-> Len(remoteObjs[r][p])]>>
                    ELSE << >>
           dirE == IF \E k \in keys : Len(k) > Len(p) /\ SubSeq(k, 1, Len(p)) = p
                   THEN <<[name |-> n, isDir |-> TRUE, size |-> 0]>>
                   ELSE << >>
       IN fileE \o dirE \o ListFrom(r, dir, i + 1)

ListEntries(r, dir) == ListFrom(r, dir, 1)

\* remote.findObjects: the listing, or the status of a listing that failed
\* after its retries; a prefix that does not exist lists as empty with OK.
findObjects(r, dir, fail) ==
  IF fail THEN [status |-> "EIO", objects |-> << >>]
  ELSE [status |-> "OK", objects |-> ListEntries(r, dir)]

\* ----------------------------------------------------------- the namespace
NS == [dirs |-> dirs, dirContents |-> dirContents, files |-> files,
       fileToRemote |-> fileToRemote]

\* append(m[k], v) on a Go map of slices
AppendAt(m, k, v) == Put(m, k, Append(IF Has(m, k) THEN m[k] ELSE << >>, v))

RegAttr(size) == [size |-> size, mode |-> "REG"]

\* The loop of openDir over the listed objects, from object i on.
RECURSIVE openDirLoop(_, _, _, _, _)
openDirLoop(ns, r, name, objects, i) ==
  IF i > Len(objects) THEN ns
  ELSE LET o == objects[i]
           thisPath == Join(name, o.name)
           d == [name |-> o.name, mode |-> IF o.isDir THEN "DIR" ELSE "REG"]
           ns1 == IF o.isDir
                  THEN [ns EXCEPT !.dirs = AppendAt(ns.dirs, thisPath, r)]
                  ELSE [ns EXCEPT !.files = Put(ns.files, thisPath, RegAttr(o.size)),
                                  !.fileToRemote = Put(ns.fileToRemote, thisPath, r)]
           ns2 == [ns1 EXCEPT !.dirContents = AppendAt(ns1.dirContents, name, d)]
       IN openDirLoop(ns2, r, name, objects, i + 1)

\* MuxFys.openDir(r, name) given what findObjects returned: the namespace
\* afterwards and the status.
openDir(ns, r, name, lst) ==
  IF lst.status # "OK" \/ Len(lst.objects) = 0
  THEN IF name = Root
       THEN [ns |-> [ns EXCEPT !.dirs = AppendAt(ns.dirs, name, r),
                               !.dirContents = Put(ns.dirContents, name, << >>)],
             status |-> "OK"]
       ELSE [ns |-> ns,
             status |-> IF lst.status = "OK" THEN "ENOENT" ELSE lst.status]
  ELSE LET ns1 == openDirLoop(ns, r, name, lst.objects, 1)
           ns2 == [ns1 EXCEPT !.dirs = AppendAt(ns1.dirs, name, r)]
           ns3 == IF Has(ns2.dirContents, name) THEN ns2
                  ELSE [ns2 EXCEPT !.dirContents = Put(ns2.dirContents, name, << >>)]
       IN [ns |-> ns3, status |-> "OK"]

\* "for _, r := range remotes { fs.openDir(r, name) }", from the i-th remote of
\* rs on; fails[r] tells whether the listing of remote r fails.
RECURSIVE openDirAll(_, _, _, _, _)
openDirAll(ns, rs, name, fails, i) ==
  IF i > Len(rs) THEN ns
  ELSE openDirAll(openDir(ns, rs[i], name, findObjects(rs[i], name, fails[rs[i]])).ns,
                  rs, name, fails, i + 1)

\* MuxFys.addNewEntryToItsDir(name, mode)
addNoEntry(ns, name, mode, fails) == ns
addNewEntryToItsDir(ns, name, mode, fails) ==
  LET d == [name |-> Base(name), mode |-> mode]
      parent == Dir(name)
      ns1 == IF ~Has(ns.dirContents, parent) /\ Has(ns.dirs, parent)
             THEN openDirAll(ns, ns.dirs[parent], parent, fails, 1)
             ELSE ns
  IN [ns1 EXCEPT !.dirContents = AppendAt(ns1.dirContents, parent, d)]

\* MuxFys.rmEntryFromItsDir(name): the first entry with that name is replaced
\* by the last one and the list shortened.
rmEntryFromItsDir(ns, name) ==
  LET parent == Dir(name)
      baseName == Base(name)
  IN IF ~Has(ns.dirContents, parent) THEN ns
     ELSE LET dentries == ns.dirContents[parent]
              hits == {i \in 1..Len(dentries) : dentries[i].name = baseName}
          IN IF hits = {} THEN ns
             ELSE LET i == CHOOSE x \in hits : \A y \in hits : x <= y
                      n == Len(dentries)
                      moved == [dentries EXCEPT ![i] = dentries[n]]
                  IN [ns EXCEPT !.dirContents =
                        Put(ns.dirContents, parent, SubSeq(moved, 1, n - 1))]

SetNS(ns) ==
  /\ dirs' = ns.dirs
  /\ dirContents' = ns.dirContents
  /\ files' = ns.files
  /\ fileToRemote' = ns.fileToRemote

\* The fuse server runs callbacks from a successful Mount until the kernel
\* unmount succeeds.
Serving == Running /\ handle = "ready" /\ mounted

ListFailures == [RIdx -> BOOLEAN]

\* ------------------------------------------------------------- lifecycle
AllRemotes == [i \in 1..Len(remotes) |-> i]

\* MuxFys.OnMount, which the fuse library calls once the mount is made.
OnMount(ns) == [ns EXCEPT !.dirs = Put(ns.dirs, Root, AllRemotes)]

\* Has this handle a mount already?
NeverMounted == FALSE

AlreadyMounted == mounted

\* MuxFys.Mount(); serverOK tells whether fuse.NewServer could mount.
MountBody(serverOK) ==
  IF AlreadyMounted
  THEN /\ lastCall' = [op |-> "Mount", err |-> "Can't mount more that once at a time\n"]
       /\ UNCHANGED <<mounted, server, mountCount, nsVars, lastUnmount, uploadLog>>
  ELSE IF ~serverOK
  THEN /\ lastCall' = [op |-> "Mount", err |-> "mount failed"]
       /\ UNCHANGED <<mounted, server, mountCount, nsVars, lastUnmount, uploadLog>>
  ELSE /\ mountCount < MaxMounts
       /\ lastCall' = [op |-> "Mount", err |-> ""]
       /\ mounted' = TRUE
       /\ mountCount' = mountCount + 1
       /\ server' = mountCount + 1
       /\ SetNS(OnMount(NS))
       /\ lastUnmount' = NoUnmount
       /\ uploadLog' = {}
       /\ UNCHANGED <<createdFiles, createdDirs>>

Mount ==
  /\ Running /\ handle = "ready" /\ ClientIdle
  /\ mutex = -1
  /\ \E serverOK \in BOOLEAN : MountBody(serverOK)
  /\ UNCHANGED <<handle, remotes, writeRemote, handlingSignals, deathSignals,
                 ignoreSignals, mutex, upc, uframe, hpc, sigbuf, notify,
                 signalsSent, exitCode, remoteObjs, localFiles, tracker,
                 handles>>
  /\ NoReadReply
  /\ UNCHANGED cbVars

\* MuxFys.UnmountOnDeath(): the part that runs under fs.mutex.  The goroutine
\* it starts is handler h, which waits in its select.
UnmountOnDeathBody(h) ==
  IF ~mounted \/ handlingSignals
  THEN UNCHANGED <<handlingSignals, deathSignals, ignoreSignals, hpc, sigbuf, notify>>
  ELSE /\ hpc[h] = "unborn"
       /\ \A g \in Handlers : hpc[g] = "unborn" => h <= g
       /\ deathSignals' = h
       /\ notify' = [notify EXCEPT ![h] = TRUE]
       /\ sigbuf' = [sigbuf EXCEPT ![h] = 0]
       /\ handlingSignals' = TRUE
       /\ ignoreSignals' = h
       /\ hpc' = [hpc EXCEPT ![h] = "select"]

UnmountOnDeath ==
  /\ Running /\ handle = "ready" /\ ClientIdle
  /\ mutex = -1
  /\ \E h \in Handlers : UnmountOnDeathBody(h)
  /\ lastCall' = [op |-> "UnmountOnDeath", err |-> ""]
  /\ UNCHANGED <<handle, remotes, writeRemote, mounted, server, mountCount,
                 mutex, upc, uframe, signalsSent, exitCode, lastUnmount,
                 nsVars, envVars>>
  /\ NoReadReply
  /\ UNCHANGED cbVars

\* A death signal reaches the process: the runtime puts it in every registered
\* channel that has room.
DeliverSignal ==
  /\ Running
  /\ signalsSent < MaxSignals
  /\ \E h \in Handlers : notify[h]
  /\ signalsSent' = signalsSent + 1
  /\ sigbuf' = [h \in Handlers |->
                  IF notify[h] /\ sigbuf[h] < SigChanCap THEN sigbuf[h] + 1
                  ELSE sigbuf[h]]
  /\ UNCHANGED <<handle, remotes, writeRemote, mounted, server, mountCount,
                 handlingSignals, deathSignals, ignoreSignals, mutex, upc,
                 uframe, hpc, notify, exitCode, lastCall, lastUnmount,
                 nsVars, envVars>>
  /\ NoReadReply
  /\ UNCHANGED cbVars

\* The goroutine of UnmountOnDeath: "case <-fs.deathSignals".
HandlerRecvSignal(h) ==
  /\ Running
  /\ hpc[h] = "select"
  /\ sigbuf[h] > 0
  /\ sigbuf' = [sigbuf EXCEPT ![h] = sigbuf[h] - 1]
  /\ hpc' = [hpc EXCEPT ![h] = "sigLock"]
  /\ UNCHANGED <<handle, remotes, writeRemote, mounted, server, mountCount,
                 handlingSignals, deathSignals, ignoreSignals, mutex, upc,
                 uframe, notify, signalsSent, exitCode, lastCall, lastUnmount,
                 nsVars, envVars>>
  /\ NoReadReply
  /\ UNCHANGED cbVars

\* ... then fs.mutex.Lock(); fs.handlingSignals = false; fs.mutex.Unlock(),
\* and the call of fs.Unmount() begins.
HandlerSigClear(h) ==
  /\ Running
  /\ hpc[h] = "sigLock"
  /\ mutex = -1
  /\ handlingSignals' = FALSE
  /\ hpc' = [hpc EXCEPT ![h] = "unmount"]
  /\ upc' = [upc EXCEPT ![h] = "lock"]
  /\ uframe' = [uframe EXCEPT ![h] = NoFrame]
  /\ UNCHANGED <<handle, remotes, writeRemote, mounted, server, mountCount,
                 deathSignals, ignoreSignals, mutex, sigbuf, notify,
                 signalsSent, exitCode, lastCall, lastUnmount, nsVars, envVars>>
  /\ NoReadReply
  /\ UNCHANGED cbVars

\* "case <-fs.ignoreSignals" was taken (see UnmountCancel):
\* signal.Stop(fs.deathSignals).
HandlerStop(h) ==
  /\ Running
  /\ hpc[h] = "ignored"
  /\ notify' = [g \in Handlers |-> IF g = deathSignals THEN FALSE ELSE notify[g]]
  /\ hpc' = [hpc EXCEPT ![h] = "ignLock"]
  /\ UNCHANGED <<handle, remotes, writeRemote, mounted, server, mountCount,
                 handlingSignals, deathSignals, ignoreSignals, mutex, upc,
                 uframe, sigbuf, signalsSent, exitCode, lastCall, lastUnmount,
                 nsVars, envVars>>
  /\ NoReadReply
  /\ UNCHANGED cbVars

\* ... then fs.mutex.Lock(); fs.handlingSignals = false; fs.mutex.Unlock();
\* return.
HandlerIgnClear(h) ==
  /\ Running
  /\ hpc[h] = "ignLock"
  /\ mutex = -1
  /\ handlingSignals' = FALSE
  /\ hpc' = [hpc EXCEPT ![h] = "unborn"]
  /\ sigbuf' = [sigbuf EXCEPT ![h] = 0]
  /\ UNCHANGED <<handle, remotes, writeRemote, mounted, server, mountCount,
                 deathSignals, ignoreSignals, mutex, upc, uframe, notify,
                 signalsSent, exitCode, lastCall, lastUnmount, nsVars, envVars>>
  /\ NoReadReply
  /\ UNCHANGED cbVars

\* os.Exit(2) if the handler's Unmount returned an error, os.Exit(1) if not.
ExitStatus(f) == IF f.kerr \/ f.fails > 0 THEN 2 ELSE 1

HandlerExit(h) ==
  /\ Running
  /\ hpc[h] = "exit"
  /\ exitCode' = ExitStatus(uframe[h])
  /\ hpc' = [hpc EXCEPT ![h] = "exited"]
  /\ UNCHANGED <<handle, remotes, writeRemote, mounted, server, mountCount,
                 handlingSignals, deathSignals, ignoreSignals, mutex, upc,
                 uframe, sigbuf, notify, signalsSent, lastCall, lastUnmount,
                 nsVars, envVars>>
  /\ NoReadReply
  /\ UNCHANGED cbVars

\* ---------------------------------------------------------------- Unmount
\* The client calls Unmount(doNotUpload...).
CallUnmount ==
  /\ Running /\ handle = "ready" /\ ClientIdle
  /\ \E skip \in BOOLEAN :
       uframe' = [uframe EXCEPT ![Main] = [NoFrame EXCEPT !.skip = skip]]
  /\ upc' = [upc EXCEPT ![Main] = "lock"]
  /\ UNCHANGED <<handle, remotes, writeRemote, mounted, server, mountCount,
                 handlingSignals, deathSignals, ignoreSignals, mutex, hpc,
                 sigbuf, notify, signalsSent, exitCode, lastCall, lastUnmount,
                 nsVars, envVars>>
  /\ NoReadReply
  /\ UNCHANGED cbVars

\* fs.mutex.Lock()
UnmountLock(t) ==
  /\ Running
  /\ upc[t] = "lock"
  /\ mutex = -1
  /\ mutex' = t
  /\ upc' = [upc EXCEPT ![t] = "cancel"]
  /\ uframe' = [uframe EXCEPT ![t].afterOK = lastUnmount.ok /\ ~mounted]
  /\ uploadLog' = {}
  /\ UNCHANGED <<handle, remotes, writeRemote, mounted, server, mountCount,
                 handlingSignals, deathSignals, ignoreSignals, hpc,
                 sigbuf, notify, signalsSent, exitCode, lastCall, lastUnmount,
                 nsVars, remoteObjs, localFiles, tracker, handles>>
  /\ NoReadReply
  /\ UNCHANGED cbVars

\* "if fs.handlingSignals { fs.ignoreSignals <- true }": the channel is
\* unbuffered, so the send completes only together with the receive in the
\* select of the goroutine the channel was made for.
UnmountCancel(t) ==
  /\ Running
  /\ upc[t] = "cancel"
  /\ IF handlingSignals
     THEN /\ ignoreSignals \in Handlers
          /\ hpc[ignoreSignals] = "select"
          /\ hpc' = [hpc EXCEPT ![ignoreSignals] = "ignored"]
     ELSE UNCHANGED hpc
  /\ upc' = [upc EXCEPT ![t] = "kernel"]
  /\ UNCHANGED <<handle, remotes, writeRemote, mounted, server, mountCount,
                 handlingSignals, deathSignals, ignoreSignals, mutex, uframe,
                 sigbuf, notify, signalsSent, exitCode, lastCall, lastUnmount,
                 nsVars, envVars>>
  /\ NoReadReply
  /\ UNCHANGED cbVars

\* "if fs.mounted { err = fs.server.Unmount(); if err == nil { fs.mounted =
\* false } }".  The kernel refuses to unmount a file system with open files; it
\* may refuse for other reasons too.  Unmounting releases the server's handles.
UnmountKernel(t) ==
  /\ Running
  /\ upc[t] = "kernel"
  /\ IF mounted
     THEN \E ok \in BOOLEAN :
            /\ ok => handles = {}
            /\ mounted' = ~ok
            /\ uframe' = [uframe EXCEPT ![t].kerr = ~ok, ![t].wasMounted = TRUE]
     ELSE UNCHANGED <<mounted, uframe>>
  /\ upc' = [upc EXCEPT ![t] = "upload"]
  /\ UNCHANGED <<handle, remotes, writeRemote, server, mountCount,
                 handlingSignals, deathSignals, ignoreSignals, mutex, hpc,
                 sigbuf, notify, signalsSent, exitCode, lastCall, lastUnmount,
                 nsVars, envVars>>
  /\ NoReadReply
  /\ UNCHANGED cbVars

\* remote.uploadFile(localPath, remotePath) for every name of up: the store of
\* remote r afterwards.
uploadFiles(objs, r, up) ==
  [objs EXCEPT ![r] = [p \in (DOMAIN objs[r]) \cup up |->
                         IF p \in up THEN localFiles[r][p] ELSE objs[r][p]]]

\* The loop of uploadCreated carries on after a failed upload ("fails++;
\* continue"): the names it calls uploadFile for, failSet being those whose
\* upload fails.
AttemptedUntilFailure(names, failSet) ==
  IF names \cap failSet = {} THEN names
  ELSE {CHOOSE p \in names \cap failSet : TRUE}

Attempted(names, failSet) == names

\* The names uploadCreated collects from fs.createdFiles.
FirstCreatedFile == IF createdFiles = {} THEN {} ELSE {CHOOSE p \in createdFiles : TRUE}

CreatedAndLinks == createdFiles \cup {p \in DOMAIN files : files[p].mode = "LNK"}

UploadCandidates == createdFiles

\* MuxFys.uploadCreated(); failSet holds the names whose uploadFile fails (a
\* file that is not in the cache directory cannot be uploaded).  The names
\* uploaded leave createdFiles.
uploadCreated(t, failSet) ==
  IF writeRemote # 0 /\ remotes[writeRemote].cacheData
  THEN LET names == Attempted(UploadCandidates, failSet)
           done == names \ failSet
       IN /\ failSet \subseteq createdFiles
          /\ \A p \in createdFiles : ~Has(localFiles[writeRemote], p) => p \in failSet
          /\ remoteObjs' = uploadFiles(remoteObjs, writeRemote, done)
          /\ uploadLog' = uploadLog \cup
               {[remote |-> writeRemote, path |-> p, ok |-> p \in done] : p \in names}
          /\ createdFiles' = createdFiles \ done
          /\ uframe' = [uframe EXCEPT ![t].fails = Cardinality(names \cap failSet),
                                      ![t].start = createdFiles,
                                      ![t].residue = createdFiles \ done]
  ELSE /\ failSet = {}
       /\ UNCHANGED <<remoteObjs, uploadLog, createdFiles>>
       /\ uframe' = [uframe EXCEPT ![t].start = createdFiles,
                                   ![t].residue = createdFiles]

\* "if !(len(doNotUpload) > 0 && doNotUpload[0]) { uerr := fs.uploadCreated() }"
UnmountUpload(t) ==
  /\ Running
  /\ upc[t] = "upload"
  /\ IF uframe[t].skip
     THEN /\ uframe' = [uframe EXCEPT ![t].start = createdFiles,
                                      ![t].residue = createdFiles]
          /\ UNCHANGED <<remoteObjs, uploadLog, createdFiles>>
     ELSE \E failSet \in SUBSET createdFiles : uploadCreated(t, failSet)
  /\ upc' = [upc EXCEPT ![t] = "cleanup"]
  /\ UNCHANGED <<handle, remotes, writeRemote, mounted, server, mountCount,
                 handlingSignals, deathSignals, ignoreSignals, mutex, hpc,
                 sigbuf, notify, signalsSent, exitCode, lastCall, lastUnmount,
                 dirs, dirContents, files, fileToRemote, createdDirs,
                 localFiles, tracker, handles>>
  /\ NoReadReply
  /\ UNCHANGED cbVars

\* fmt.Errorf("failed to upload %d files\n", fails)
UploadErrOne(fails) == "failed to upload 1 files\n"

UploadErr(fails) == "failed to upload " \o ToString(fails) \o " files\n"

\* What server.Unmount() says when the kernel refuses.
KernelErr == "unmount failed"

\* The error Unmount returns: "" stands for nil.
UnmountErr(f) ==
  IF f.kerr /\ f.fails > 0 THEN KernelErr \o "; " \o UploadErr(f.fails)
  ELSE IF f.kerr THEN KernelErr
  ELSE IF f.fails > 0 THEN UploadErr(f.fails)
  ELSE ""

\* remote.deleteCache() for every remote whose cache directory muxfys made.
deleteCaches(m) ==
  [r \in RIdx |-> IF r <= Len(remotes) /\ remotes[r].cacheIsTmp THEN EmptyMap
                  ELSE m[r]]

\* fs.createdFiles after "fs.createdFiles = make(map[string]bool)".
KeptCreatedFiles == createdFiles

WipedCreatedFiles == {}

\* The rest of Unmount: the caches muxfys made are deleted, the maps are
\* renewed, the deferred fs.mutex.Unlock() runs and Unmount returns.  The
\* attrs that open handles point to are no longer those of fs.files: such a
\* handle is stale.
UnmountCleanup(t) ==
  /\ Running
  /\ upc[t] = "cleanup"
  /\ localFiles' = deleteCaches(localFiles)
  /\ tracker' = deleteCaches(tracker)
  /\ dirs' = EmptyMap
  /\ dirContents' = EmptyMap
  /\ files' = EmptyMap
  /\ fileToRemote' = EmptyMap
  /\ createdFiles' = WipedCreatedFiles
  /\ createdDirs' = {}
  /\ uframe' = [uframe EXCEPT ![t] =
                  IF t = Main THEN NoFrame
                  ELSE [NoFrame EXCEPT !.kerr = uframe[t].kerr,
                                       !.fails = uframe[t].fails]]
  /\ lastUnmount' = [by |-> t,
                     err |-> UnmountErr(uframe[t]),
                     ok |-> UnmountErr(uframe[t]) = "",
                     kerr |-> uframe[t].kerr,
                     fails |-> uframe[t].fails,
                     skip |-> uframe[t].skip,
                      start |-> uframe[t].start,
                     residue |-> uframe[t].residue,
                     log |-> uploadLog,
                     wasMounted |-> uframe[t].wasMounted,
                     afterOK |-> uframe[t].afterOK]
  /\ mutex' = -1
  /\ upc' = [upc EXCEPT ![t] = "idle"]
  /\ IF t = Main
     THEN /\ lastCall' = [op |-> "Unmount", err |-> UnmountErr(uframe[t])]
          /\ UNCHANGED hpc
     ELSE /\ hpc' = [hpc EXCEPT ![t] = "exit"]
          /\ UNCHANGED lastCall
  /\ handles' = {[h EXCEPT !.stale = TRUE] : h \in handles}
  /\ written' = [p \in DOMAIN written |->
                   [written[p] EXCEPT !.um =
                      IF written[p].um # "none" THEN "many"
                      ELSE IF UnmountErr(uframe[t]) # "" THEN "failed"
                      ELSE IF uframe[t].skip THEN "skipped" ELSE "ok"]]
  /\ lastRead' = NoRead
  /\ UNCHANGED <<handle, remotes, writeRemote, mounted, server, mountCount,
                 handlingSignals, deathSignals, ignoreSignals, sigbuf, notify,
                 signalsSent, exitCode, remoteObjs, uploadLog>>
  /\ UNCHANGED cbVars

\* ---------------------------------------------------------- file callbacks
FreeHandleIds == (1..MaxHandles) \ {h.id : h \in handles}
NewHandle(name, r, w) ==
  [id |-> CHOOSE i \in FreeHandleIds : \A j \in FreeHandleIds : i <= j,
   path |-> name, r |-> r, write |-> w, stale |-> FALSE]

\* newCachedFile with O_CREATE among the flags opens the local file, creating
\* it empty when it is not there.
newCachedFile(lf, r, name, create) ==
  IF create /\ ~Has(lf[r], name) THEN [lf EXCEPT ![r] = Put(lf[r], name, << >>)]
  ELSE lf

\* MuxFys.Create(name, flags, mode, context), from the point where
\* fs.writeRemote was found to be set; lockOK tells whether getFileMutex could
\* make its lock file and fails which listings fail.
CreateBody(name, lockOK, fails) ==
  LET r == writeRemote
  IN IF remotes[r].cacheData /\ ~lockOK
     THEN UNCHANGED <<nsVars, localFiles, handles>>
     ELSE LET existed == Has(files, name)
              ns1 == IF existed THEN NS
                     ELSE addNewEntryToItsDir(NS, name, "REG", fails)
              ns2 == IF existed THEN ns1
                     ELSE [ns1 EXCEPT !.files = Put(ns1.files, name, RegAttr(0)),
                                      !.fileToRemote = Put(ns1.fileToRemote, name, r)]
          IN /\ SetNS(ns2)
             /\ createdFiles' = createdFiles \cup {name}
             /\ UNCHANGED createdDirs
             /\ localFiles' = newCachedFile(localFiles, r, name, remotes[r].cacheData)
             /\ handles' = handles \cup {NewHandle(name, r, TRUE)}

CreateCall(name, lockOK, fails) ==
  /\ Serving
  /\ FreeHandleIds # {}
  /\ IF writeRemote = 0
     THEN UNCHANGED <<nsVars, localFiles, handles>>
     ELSE CreateBody(name, lockOK, fails)
  /\ UNCHANGED <<lifeVars, remoteObjs, tracker, uploadLog>>
  /\ NoReadReply
  /\ UNCHANGED cbVars

Create ==
  \E name \in Paths, lockOK \in BOOLEAN, fails \in ListFailures :
    CreateCall(name, lockOK, fails)

\* Create of the one file "b", the lock file and the listings in order.
CreateB == CreateCall(<<"b">>, TRUE, [r \in RIdx |-> FALSE])

\* Release of a file handle.
Release ==
  /\ Running
  /\ \E h \in handles : handles' = handles \ {h}
  /\ UNCHANGED <<lifeVars, nsVars, remoteObjs, localFiles, tracker, uploadLog>>
  /\ NoReadReply
  /\ UNCHANGED cbVars

\* ------------------------------------------------------------- intervals
\* Interval: [Start, End), Start < End.  Intervals: a sorted sequence of
\* disjoint intervals that do not touch.
NewInterval(start, length) == [Start |-> start, End |-> start + length]
Span(iv) == iv.Start..(iv.End - 1)
Cover(ivs) == UNION {Span(ivs[i]) : i \in DOMAIN ivs}

\* The canonical Intervals that cover the set S of offsets.
RunEnd(S, st) ==
  CHOOSE e \in {x + 1 : x \in S} : e > st /\ e \notin S /\ \A x \in st..(e - 1) : x \in S
RECURSIVE RunsOf(_)
RunsOf(S) ==
  IF S = {} THEN << >>
  ELSE LET st == CHOOSE x \in S : \A y \in S : x <= y
           e == RunEnd(S, st)
       IN <<[Start |-> st, End |-> e]>> \o RunsOf(S \ (st..(e - 1)))

\* Intervals.Merge(iv) and Intervals.Difference(iv)
Merge(ivs, iv) == RunsOf(Cover(ivs) \cup Span(iv))
Difference(ivs, iv) == RunsOf(Span(iv) \ Cover(ivs))
\* Intervals.Truncate(pos): nothing at or beyond pos is kept.
Truncate(ivs, pos) == RunsOf(Cover(ivs) \cap (0..(pos - 1)))

\* ------------------------------------------------------------ CacheTracker
\* c.cached[path] of a path the map does not hold is the nil Intervals.
CachedOf(c, path) == IF Has(c, path) THEN c[path] ELSE << >>
Cached(c, path, iv) == Put(c, path, Merge(CachedOf(c, path), iv))
UncachedWhole(c, path, iv) == IF iv.Start < iv.End THEN <<iv>> ELSE << >>
Uncached(c, path, iv) == Difference(CachedOf(c, path), iv)
CacheOverride(c, path, iv) == Put(c, path, <<iv>>)
CacheDelete(c, path) == Del(c, path)
CacheTruncateKept(c, path, offset) == c
CacheTruncate(c, path, offset) == Put(c, path, Truncate(CachedOf(c, path), offset))
\* c.cached[newPath] = c.cached[oldPath] of a path the map does not hold stores
\* the nil Intervals.
CacheRename(c, oldPath, newPath) == Del(Put(c, newPath, CachedOf(c, oldPath)), oldPath)
CacheWipe(c) == EmptyMap

\* ------------------------------------------------------- the cache files
\* A file of n bytes nothing was written to: a hole reads as 0.
SparseEmpty(n) == << >>
Sparse(n) == [i \in 1..n |-> 0]

\* The file f after data was written at offset off, holes where f was shorter.
Patch(f, off, data) ==
  [i \in 1..Max(Len(f), off + Len(data)) |->
     IF i > off /\ i <= off + Len(data) THEN data[i - off]
     ELSE IF i <= Len(f) THEN f[i] ELSE 0]

\* The bytes [off, off + n) of f.
Slice(f, off, n) == SubSeq(f, off + 1, off + n)

\* remote.downloadRange for every interval of ivs: the object's bytes are
\* written into the cache file at their offsets.
RECURSIVE downloadRanges(_, _, _)
downloadRanges(f, obj, ivs) ==
  IF ivs = << >> THEN f
  ELSE LET iv == Head(ivs)
       IN downloadRanges(Patch(f, iv.Start, Slice(obj, iv.Start, iv.End - iv.Start)),
                         obj, Tail(ivs))

\* A range can be downloaded from an object that holds it.
CanDownload(objs, name, ivs) ==
  /\ Has(objs, name)
  /\ \A i \in DOMAIN ivs : ivs[i].End <= Len(objs[name])

RECURSIVE CachedAll(_, _, _)
CachedAll(c, path, ivs) ==
  IF ivs = << >> THEN c
  ELSE CachedAll(Cached(c, path, Head(ivs)), path, Tail(ivs))

\* ------------------------------------------------------- reading, writing
NoListFailure == [r \in RIdx |-> FALSE]

\* MuxFys.GetAttr(name, context): what it does to the maps.
GetAttrCall(name, fails) ==
  /\ Serving
  /\ IF Has(dirs, name) \/ Has(files, name) THEN UNCHANGED nsVars
     ELSE LET parent == Dir(name)
          IN IF ~Has(dirContents, parent) /\ Has(dirs, parent)
             THEN /\ SetNS(openDirAll(NS, dirs[parent], parent, fails, 1))
                  /\ UNCHANGED <<createdFiles, createdDirs>>
             ELSE UNCHANGED nsVars
  /\ UNCHANGED <<lifeVars, envVars>>
  /\ NoReadReply
  /\ UNCHANGED cbVars

\* remote.downloadFile(remotePath, localPath): the whole object goes to the
\* cache file and the tracker is told so.  [status, lf, ct]
downloadFile(lf, ct, r, name, dlOK) ==
  IF ~dlOK \/ ~Has(remoteObjs[r], name) THEN [status |-> "EIO", lf |-> lf, ct |-> ct]
  ELSE LET obj == remoteObjs[r][name]
       IN [status |-> "OK", lf |-> Put(lf, name, obj),
           ct |-> CacheOverride(ct, name, NewInterval(0, Len(obj)))]

\* The flags of an Open that ask for more than reading, as a set: a flag is in
\* the set when its bit is.
WriteFlags == {"O_WRONLY", "O_RDWR", "O_APPEND", "O_CREATE", "O_TRUNC"}
OpenFlags == SUBSET WriteFlags
WriteType(flags) == flags \cap WriteFlags # {}
ReadOrWrite == {{}, {"O_RDWR"}}

\* MuxFys.openCached(r, name, flags, context, attr) up to its decision between
\* Create and newCachedFile.  [status, size (attr.Size), lf (the cache
\* directory of r), ct (the tracker of r)]
openCached(r, name, flags, lockOK, dlOK) ==
  LET attr0 == files[name].size
      lf0 == localFiles[r]
      ct0 == tracker[r]
      rw == WriteType(flags)
      append == "O_APPEND" \in flags
  IN IF ~lockOK THEN [status |-> "EIO", size |-> attr0, lf |-> lf0, ct |-> ct0]
     ELSE
     LET exists == Has(lf0, name)
         differs == exists /\ Len(lf0[name]) # attr0
         create == ~exists \/ differs
         size1 == IF differs /\ rw THEN 0 ELSE attr0
         lf1 == IF differs THEN Del(lf0, name) ELSE lf0
         ct1 == IF create THEN CacheDelete(ct0, name) ELSE ct0
         dl == downloadFile(lf1, ct1, r, name, dlOK)
         unread == Uncached(ct1, name, [Start |-> 0, End |-> size1])
         made ==
           IF ~create
           THEN IF remotes[r].cacheIsTmp /\ append /\ unread # << >>
                THEN IF ~dlOK \/ ~CanDownload(remoteObjs[r], name, unread)
                     THEN [status |-> "EIO", size |-> size1, lf |-> lf1, ct |-> ct1]
                     ELSE [status |-> "OK", size |-> size1,
                           lf |-> Put(lf1, name,
                                      downloadRanges(lf1[name], remoteObjs[r][name],
                                                     unread)),
                           ct |-> CachedAll(ct1, name, unread)]
                ELSE [status |-> "OK", size |-> size1, lf |-> lf1, ct |-> ct1]
           ELSE IF ~remotes[r].cacheIsTmp \/ append
           THEN IF dl.status # "OK"
                THEN [status |-> dl.status, size |-> size1, lf |-> dl.lf, ct |-> dl.ct]
                ELSE IF Len(dl.lf[name]) # size1
                THEN [status |-> "EIO", size |-> size1, lf |-> Del(dl.lf, name),
                      ct |-> dl.ct]
                ELSE [status |-> "OK", size |-> size1, lf |-> dl.lf,
                      ct |-> CacheOverride(dl.ct, name, NewInterval(0, size1))]
           ELSE [status |-> "OK", size |-> size1,
                 lf |-> Put(lf1, name, Sparse(size1)), ct |-> ct1]
     IN IF made.status = "OK" /\ rw /\ ~append
        THEN [made EXCEPT !.ct = CacheDelete(made.ct, name), !.size = 0]
        ELSE made

\* The status MuxFys.Open(name, flags, context) returns.
OpenStatus(name, flags, lockOK, dlOK) ==
  IF ~Has(files, name) THEN "ENOENT"
  ELSE IF WriteType(flags) /\ ~remotes[fileToRemote[name]].write THEN "EPERM"
  ELSE IF ~remotes[fileToRemote[name]].cacheData THEN "OK"
  ELSE openCached(fileToRemote[name], name, flags, lockOK, dlOK).status

OpenWriteableAnyFlag(r, flags) == remotes[r].write /\ WriteType(flags)
\* The file Open returns lets the client write: it is not wrapped by
\* nodefs.NewReadOnlyFile.
OpenWriteable(r, flags) == remotes[r].write /\ flags \cap {"O_WRONLY", "O_RDWR"} # {}

\* MuxFys.Open(name, flags, context).  A file opened with a flag of WriteFlags
\* goes through Create, which finds it in fs.files; after fileDetails the
\* remote is the write remote.
OpenCall(name, flags, lockOK, dlOK) ==
  /\ Serving
  /\ FreeHandleIds # {}
  /\ IF ~Has(files, name)
        \/ (WriteType(flags) /\ ~remotes[fileToRemote[name]].write)
     THEN UNCHANGED <<nsVars, localFiles, tracker, handles, written>>
     ELSE LET r == fileToRemote[name]
              rw == WriteType(flags)
          IN IF ~remotes[r].cacheData
             THEN /\ handles' = handles \cup {NewHandle(name, r, FALSE)}
                  /\ UNCHANGED <<nsVars, localFiles, tracker, written>>
             ELSE LET res == openCached(r, name, flags, lockOK, dlOK)
                  IN /\ files' = [files EXCEPT ![name].size = res.size]
                     /\ localFiles' = [localFiles EXCEPT ![r] = res.lf]
                     /\ tracker' = [tracker EXCEPT ![r] = res.ct]
                     /\ handles' = IF res.status = "OK"
                                   THEN handles \cup
                                          {NewHandle(name, r, OpenWriteable(r, flags))}
                                   ELSE handles
                     /\ createdFiles' = IF res.status = "OK" /\ rw
                                        THEN createdFiles \cup {name}
                                        ELSE createdFiles
                     /\ written' = IF res.size # files[name].size
                                      \/ (rw /\ "O_APPEND" \notin flags
                                          /\ res.status = "OK")
                                   THEN Del(written, name) ELSE written
                     /\ UNCHANGED <<dirs, dirContents, fileToRemote, createdDirs>>
  /\ lastRead' = NoRead
  /\ UNCHANGED <<lifeVars, remoteObjs, uploadLog>>
  /\ UNCHANGED cbVars

\* A handle the kernel still passes requests to, on a cached remote.
LiveCached(h) ==
  /\ h \in handles
  /\ ~h.stale
  /\ remotes[h.r].cacheData
  /\ Has(files, h.path)
  /\ Has(localFiles[h.r], h.path)

\* cachedFile.Read(buf, offset): the request is clipped to the size of the
\* file, what the tracker does not hold is downloaded and recorded, and the
\* bytes come from the cache file.  A failed download fails the read and
\* records nothing.
ReadCall(h, off, size, dlOK) ==
  /\ Serving
  /\ LiveCached(h)
  /\ LET end == Min(off + size, files[h.path].size)
         lf == localFiles[h.r][h.path]
         unc == IF off < end
                THEN Uncached(tracker[h.r], h.path, [Start |-> off, End |-> end])
                ELSE << >>
         rec == [NoRead EXCEPT !.path = h.path, !.off = off, !.size = size,
                              !.mount = mountCount]
     IN IF off >= end
        THEN /\ lastRead' = [rec EXCEPT !.status = "OK", !.data = << >>]
             /\ UNCHANGED <<localFiles, tracker>>
        ELSE IF unc # << >> /\ (~dlOK \/ ~CanDownload(remoteObjs[h.r], h.path, unc))
        THEN /\ lastRead' = [rec EXCEPT !.status = "EIO", !.data = << >>]
             /\ UNCHANGED <<localFiles, tracker>>
        ELSE LET lf1 == IF unc = << >> THEN lf
                        ELSE downloadRanges(lf, remoteObjs[h.r][h.path], unc)
             IN /\ localFiles' = [localFiles EXCEPT ![h.r] = Put(@, h.path, lf1)]
                /\ tracker' = [tracker EXCEPT ![h.r] = CachedAll(@, h.path, unc)]
                /\ lastRead' = [rec EXCEPT !.status = "OK",
                                  !.data = Slice(lf1, off, Min(end, Len(lf1)) - off)]
  /\ UNCHANGED <<lifeVars, nsVars, remoteObjs, uploadLog, handles, written>>
  /\ UNCHANGED cbVars

Read ==
  \E h \in handles, off \in 0..(MaxSize - 1), size \in 1..MaxSize, dlOK \in BOOLEAN :
    ReadCall(h, off, size, dlOK)

\* cachedFile.Write(data, offset): the bytes go to the cache file, attr.Size
\* grows to cover them, the tracker takes the written range as cached and the
\* path is one to upload.
WriteCall(h, off, data) ==
  /\ Serving
  /\ LiveCached(h)
  /\ h.write
  /\ off + Len(data) <= MaxSize
  /\ localFiles' = [localFiles EXCEPT
                      ![h.r] = Put(@, h.path, Patch(localFiles[h.r][h.path], off, data))]
  /\ files' = [files EXCEPT ![h.path].size = Max(@, off + Len(data))]
  /\ tracker' = [tracker EXCEPT
                   ![h.r] = CacheOverride(@, h.path, NewInterval(off, Len(data)))]
  /\ createdFiles' = createdFiles \cup {h.path}
  /\ written' = Put(written, h.path,
                    [off |-> off, data |-> data, mount |-> mountCount, um |-> "none"])
  /\ lastRead' = NoRead
  /\ UNCHANGED <<lifeVars, dirs, dirContents, fileToRemote, createdDirs,
                 remoteObjs, uploadLog, handles>>
  /\ UNCHANGED cbVars

Write ==
  \E h \in handles, off \in 0..(MaxSize - 1) :
    \E data \in UNION {[1..n -> Bytes] : n \in 1..MaxData} : WriteCall(h, off, data)

\* ------------------------------------------------- directories and names
SymlinkSize == 7    \* symlinkSize

\* The paths the kernel asks about: it looks a name up in a directory it knows.
DirNames == {"d", "e"}
DirPaths == {<<n>> : n \in DirNames}
DeepPaths == Paths \cup {<<"d", "a">>}
KernelKnows(name) == Dir(name) = Root \/ Has(dirs, Dir(name))

\* remote.deleteFile(remotePath): an object that is not there counts as
\* deleted.
deleteFile(objs, r, name, delOK) ==
  IF delOK THEN [objs EXCEPT ![r] = Del(objs[r], name)] ELSE objs

\* remote.copyFile(old, new) on the store of remote r.
CanCopyIfThere(objs, r, old, copyOK) == Has(objs[r], old)
CanCopy(objs, r, old, copyOK) == copyOK /\ Has(objs[r], old)
copyFile(objs, r, old, new) == [objs EXCEPT ![r] = Put(objs[r], new, objs[r][old])]

\* MuxFys.Unlink(name, context)
UnlinkCall(name, delOK) ==
  /\ Serving
  /\ IF ~Has(files, name) \/ ~remotes[fileToRemote[name]].write
     THEN UNCHANGED <<nsVars, remoteObjs, localFiles, tracker>>
     ELSE LET r == fileToRemote[name]
          IN /\ IF remotes[r].cacheData
                THEN /\ localFiles' = [localFiles EXCEPT ![r] = Del(@, name)]
                     /\ tracker' = [tracker EXCEPT ![r] = CacheDelete(@, name)]
                ELSE UNCHANGED <<localFiles, tracker>>
             /\ remoteObjs' = deleteFile(remoteObjs, r, name, delOK)
             /\ IF ~delOK THEN UNCHANGED nsVars
                ELSE /\ SetNS(rmEntryFromItsDir(
                               [NS EXCEPT !.files = Del(files, name),
                                          !.fileToRemote = Del(fileToRemote, name)],
                               name))
                     /\ createdFiles' = createdFiles \ {name}
                     /\ UNCHANGED createdDirs
  /\ UNCHANGED <<lifeVars, uploadLog, handles>>
  /\ NoReadReply
  /\ UNCHANGED cbVars

\* The status MuxFys.Unlink(name, context) returns.
UnlinkStatus(name, delOK) ==
  IF ~Has(files, name) THEN "ENOENT"
  ELSE IF ~remotes[fileToRemote[name]].write THEN "EPERM"
  ELSE IF ~delOK THEN "EIO"
  ELSE "OK"

\* MuxFys.Mkdir(name, mode, context); fsOK tells whether the directory could
\* be made in the cache.
MkdirCall(name, fsOK, fails) ==
  /\ Serving
  /\ IF writeRemote = 0 \/ Has(dirs, name) \/ ~Has(dirs, Dir(name))
        \/ (remotes[writeRemote].cacheData /\ ~fsOK)
     THEN UNCHANGED nsVars
     ELSE LET ns1 == [NS EXCEPT
                        !.dirs = AppendAt(dirs, name, writeRemote),
                        !.dirContents = IF Has(dirContents, name) THEN dirContents
                                        ELSE Put(dirContents, name, << >>)]
          IN /\ SetNS(addNewEntryToItsDir(ns1, name, "DIR", fails))
             /\ createdDirs' = IF remotes[writeRemote].cacheData
                               THEN createdDirs \cup {name} ELSE createdDirs
             /\ UNCHANGED createdFiles
  /\ UNCHANGED <<lifeVars, envVars>>
  /\ NoReadReply
  /\ UNCHANGED cbVars

\* MuxFys.Rmdir(name, context); fsOK tells whether the directory could be
\* removed from the cache.
RmdirCall(name, fsOK) ==
  /\ Serving
  /\ IF writeRemote = 0 \/ ~Has(dirs, name)
        \/ (Has(dirContents, name) /\ Len(dirContents[name]) > 0)
        \/ (remotes[writeRemote].cacheData /\ ~fsOK)
     THEN UNCHANGED nsVars
     ELSE /\ SetNS(rmEntryFromItsDir(
                     [NS EXCEPT !.dirs = Del(dirs, name),
                                !.dirContents = Del(dirContents, name)],
                     name))
          /\ createdDirs' = createdDirs \ {name}
          /\ UNCHANGED createdFiles
  /\ UNCHANGED <<lifeVars, envVars>>
  /\ NoReadReply
  /\ UNCHANGED cbVars

\* os.Rename of a cache directory takes the files under it along.
MovedKey(k, old, new) ==
  IF Len(k) > Len(old) /\ SubSeq(k, 1, Len(old)) = old
  THEN new \o SubSeq(k, Len(old) + 1, Len(k)) ELSE k
MoveDir(lf, old, new) ==
  [k \in {MovedKey(x, old, new) : x \in DOMAIN lf} |->
     lf[CHOOSE x \in DOMAIN lf : MovedKey(x, old, new) = k]]

\* os.Rename of a cache file: nothing happens when it fails.
MoveFile(lf, old, new, mvOK) ==
  IF mvOK /\ Has(lf, old) THEN Del(Put(lf, new, lf[old]), old) ELSE lf

\* MuxFys.Rename of a directory, after the checks.
RenameDir(oldPath, newPath, mvOK, fails) ==
  LET w == writeRemote
  IN IF ~remotes[w].cacheData \/ ~mvOK
     THEN UNCHANGED <<nsVars, remoteObjs, localFiles, tracker>>
     ELSE LET ns1 == [NS EXCEPT
                        !.dirs = Del(Put(dirs, newPath, dirs[oldPath]), oldPath),
                        !.dirContents =
                           Del(Put(dirContents, newPath,
                                   IF Has(dirContents, oldPath)
                                   THEN dirContents[oldPath] ELSE << >>), oldPath)]
              ns2 == rmEntryFromItsDir(ns1, oldPath)
          IN /\ SetNS(addNewEntryToItsDir(ns2, newPath, "DIR", fails))
             /\ createdDirs' = (createdDirs \ {oldPath}) \cup {newPath}
             /\ localFiles' = [localFiles EXCEPT ![w] = MoveDir(@, oldPath, newPath)]
             /\ UNCHANGED <<createdFiles, remoteObjs, tracker>>

\* MuxFys.Rename of a file from the point where both file locks are held;
\* objs is the remote store after copyFile.
renameFileLocked(objs, oldPath, newPath, mvOK, delOK, fails) ==
  LET w == writeRemote
      r == fileToRemote[oldPath]
      ns1 == [NS EXCEPT
                !.files = Put(files, newPath, files[oldPath]),
                !.fileToRemote = Put(fileToRemote, newPath, r)]
      ns2 == addNewEntryToItsDir(ns1, newPath, "REG", fails)
      ns3 == [ns2 EXCEPT !.files = Del(ns2.files, oldPath),
                         !.fileToRemote = Del(ns2.fileToRemote, oldPath)]
  IN /\ SetNS(rmEntryFromItsDir(ns3, oldPath))
     /\ createdFiles' = IF oldPath \in createdFiles
                        THEN (createdFiles \ {oldPath}) \cup {newPath}
                        ELSE createdFiles
     /\ UNCHANGED createdDirs
     /\ remoteObjs' = deleteFile(objs, r, oldPath, delOK)
     /\ IF remotes[w].cacheData
        THEN /\ localFiles' = [localFiles EXCEPT
                                 ![w] = MoveFile(@, oldPath, newPath, mvOK)]
             /\ tracker' = [tracker EXCEPT ![w] = CacheRename(@, oldPath, newPath)]
        ELSE UNCHANGED <<localFiles, tracker>>

\* MuxFys.Rename of a file, after the checks.
RenameFile(oldPath, newPath, mvOK, copyOK, lockOK, delOK, fails) ==
  LET w == writeRemote
  IN IF ~CanCopy(remoteObjs, w, oldPath, copyOK)
     THEN UNCHANGED <<nsVars, remoteObjs, localFiles, tracker>>
     ELSE IF remotes[w].cacheData /\ ~lockOK
     THEN /\ remoteObjs' = copyFile(remoteObjs, w, oldPath, newPath)
          /\ UNCHANGED <<nsVars, localFiles, tracker>>
     ELSE renameFileLocked(copyFile(remoteObjs, w, oldPath, newPath),
                           oldPath, newPath, mvOK, delOK, fails)

\* MuxFys.Rename(oldPath, newPath, context); mvOK tells whether the rename in
\* the cache worked, copyOK and delOK whether the remote copy and delete did.
RenameCall(oldPath, newPath, mvOK, copyOK, lockOK, delOK, fails) ==
  /\ Serving
  /\ IF writeRemote = 0
     THEN UNCHANGED <<nsVars, remoteObjs, localFiles, tracker>>
     ELSE IF Has(dirs, oldPath)
     THEN IF oldPath \notin createdDirs \/ ~Has(dirs, Dir(newPath))
          THEN UNCHANGED <<nsVars, remoteObjs, localFiles, tracker>>
          ELSE RenameDir(oldPath, newPath, mvOK, fails)
     ELSE IF ~Has(fileToRemote, oldPath)
     THEN UNCHANGED <<nsVars, remoteObjs, localFiles, tracker>>
     ELSE RenameFile(oldPath, newPath, mvOK, copyOK, lockOK, delOK, fails)
  /\ UNCHANGED <<lifeVars, uploadLog, handles>>
  /\ NoReadReply
  /\ UNCHANGED cbVars

\* The status MuxFys.Rename(oldPath, newPath, context) returns.
RenameStatus(oldPath, newPath, mvOK, copyOK, lockOK) ==
  IF writeRemote = 0 THEN "EPERM"
  ELSE IF Has(dirs, oldPath)
  THEN IF oldPath \notin createdDirs THEN "ENOSYS"
       ELSE IF ~Has(dirs, Dir(newPath)) THEN "ENOENT"
       ELSE IF ~remotes[writeRemote].cacheData THEN "ENOSYS"
       ELSE IF mvOK THEN "OK" ELSE "EIO"
  ELSE IF ~Has(fileToRemote, oldPath) THEN "ENOENT"
  ELSE IF ~CanCopy(remoteObjs, writeRemote, oldPath, copyOK) THEN "EIO"
  ELSE IF remotes[writeRemote].cacheData /\ ~lockOK THEN "EIO"
  ELSE "OK"

\* MuxFys.Symlink(source, dest, context); a symbolic link in the cache is a
\* file without bytes here.
SymlinkCall(dest, lockOK, fails) ==
  /\ Serving
  /\ IF writeRemote = 0 \/ ~remotes[writeRemote].cacheData \/ ~lockOK
        \/ Has(localFiles[writeRemote], dest)
     THEN UNCHANGED <<nsVars, localFiles>>
     ELSE LET ns1 == addNewEntryToItsDir(NS, dest, "LNK", fails)
          IN /\ SetNS([ns1 EXCEPT
                         !.files = Put(ns1.files, dest,
                                       [size |-> SymlinkSize, mode |-> "LNK"]),
                         !.fileToRemote = Put(ns1.fileToRemote, dest, writeRemote)])
             /\ localFiles' = [localFiles EXCEPT ![writeRemote] = Put(@, dest, << >>)]
             /\ UNCHANGED <<createdFiles, createdDirs>>
  /\ UNCHANGED <<lifeVars, remoteObjs, tracker, uploadLog, handles>>
  /\ NoReadReply
  /\ UNCHANGED cbVars

\* What Truncate does to the cache of r: [status, lf, ct].  getOK tells
\* whether getObject worked.
truncateCache(r, name, offset, getOK) ==
  LET lf == localFiles[r]
      ct == tracker[r]
  IN IF Has(lf, name)
     THEN [status |-> "OK",
           lf |-> Put(lf, name, [i \in 1..offset |->
                                   IF i <= Len(lf[name]) THEN lf[name][i] ELSE 0]),
           ct |-> CacheTruncate(ct, name, offset)]
     ELSE IF offset = 0
     THEN [status |-> "OK", lf |-> Put(lf, name, << >>),
           ct |-> CacheTruncate(ct, name, offset)]
     ELSE IF ~getOK \/ ~Has(remoteObjs[r], name)
     THEN [status |-> "EIO", lf |-> Put(lf, name, << >>), ct |-> ct]
     ELSE IF Len(remoteObjs[r][name]) < offset
     THEN [status |-> "EIO", lf |-> lf, ct |-> ct]
     ELSE [status |-> "OK", lf |-> Put(lf, name, SubSeq(remoteObjs[r][name], 1, offset)),
           ct |-> CacheOverride(ct, name, NewInterval(0, offset))]

\* The status MuxFys.Truncate(name, offset, context) returns.
TruncateStatus(name, offset, lockOK, getOK) ==
  IF ~Has(files, name) THEN "ENOENT"
  ELSE IF ~remotes[fileToRemote[name]].write THEN "EPERM"
  ELSE IF offset > files[name].size THEN "OK"
  ELSE IF ~remotes[fileToRemote[name]].cacheData THEN "ENOSYS"
  ELSE IF ~lockOK THEN "EIO"
  ELSE truncateCache(fileToRemote[name], name, offset, getOK).status

\* MuxFys.Truncate(name, offset, context)
TruncateCall(name, offset, lockOK, getOK) ==
  /\ Serving
  /\ IF ~Has(files, name) \/ ~remotes[fileToRemote[name]].write
        \/ offset > files[name].size
        \/ ~remotes[fileToRemote[name]].cacheData \/ ~lockOK
     THEN UNCHANGED <<nsVars, localFiles, tracker>>
     ELSE LET r == fileToRemote[name]
              res == truncateCache(r, name, offset, getOK)
          IN /\ localFiles' = [localFiles EXCEPT ![r] = res.lf]
             /\ tracker' = [tracker EXCEPT ![r] = res.ct]
             /\ IF res.status # "OK" THEN UNCHANGED nsVars
                ELSE /\ files' = [files EXCEPT ![name].size = offset]
                     /\ createdFiles' = createdFiles \cup {name}
                     /\ UNCHANGED <<dirs, dirContents, fileToRemote, createdDirs>>
  /\ UNCHANGED <<lifeVars, remoteObjs, uploadLog, handles>>
  /\ NoReadReply
  /\ UNCHANGED cbVars

\* MuxFys.OpenDir(name, context)
OpenDirCall(name, fails) ==
  /\ Serving
  /\ IF ~Has(dirs, name) \/ Has(dirContents, name)
     THEN UNCHANGED nsVars
     ELSE /\ SetNS(openDirAll(NS, dirs[name], name, fails, 1))
          /\ UNCHANGED <<createdFiles, createdDirs>>
  /\ UNCHANGED <<lifeVars, envVars>>
  /\ NoReadReply
  /\ UNCHANGED cbVars

\* The status MuxFys.GetAttr(name, context) returns.
GetAttrStatus(name, fails) ==
  IF Has(dirs, name) \/ Has(files, name) THEN "OK"
  ELSE LET parent == Dir(name)
       IN IF Has(dirContents, parent) THEN "ENOENT"
          ELSE LET ns == IF Has(dirs, parent)
                         THEN openDirAll(NS, dirs[parent], parent, fails, 1)
                         ELSE NS
               IN IF Has(ns.dirs, name) \/ Has(ns.files, name) THEN "OK"
                  ELSE "ENOENT"

\* The status MuxFys.OpenDir(name, context) returns.
OpenDirStatus(name, fails) ==
  IF ~Has(dirs, name) THEN "ENOENT"
  ELSE IF Has(dirContents, name) THEN "OK"
  ELSE IF Has(openDirAll(NS, dirs[name], name, fails, 1).dirContents, name)
       THEN "OK"
       ELSE "ENOENT"

\* The remotes MuxFys.GetAttr(name) lists the parent of name on, in order.
GetAttrListed(name) ==
  IF Has(dirs, name) \/ Has(files, name) THEN << >>
  ELSE IF ~Has(dirContents, Dir(name)) /\ Has(dirs, Dir(name)) THEN dirs[Dir(name)]
  ELSE << >>

\* The remotes MuxFys.OpenDir(name) lists name on, in order.
OpenDirListed(name) ==
  IF Has(dirs, name) THEN IF Has(dirContents, name) THEN << >> ELSE dirs[name]
  ELSE << >>

\* ------------------------------------------- callbacks that run together
\* The fuse server runs every callback in a goroutine of its own.  A callback
\* is followed from lock to lock: cb[t].pc names the lock goroutine t is about
\* to take.  fs.mapMutex is free when no goroutine holds it, a file lock when
\* fmutex has no entry for the path.
Idle(t) == cb[t] = NoCallback
InCallback(t, op, pc) == cb[t].op = op /\ cb[t].pc = pc
Enter(t, op, pc, name, newName, offset) ==
  cb' = [cb EXCEPT ![t] = [op |-> op, pc |-> pc, name |-> name,
                           newName |-> newName, offset |-> offset]]
Return(t) == cb' = [cb EXCEPT ![t] = NoCallback]

\* Truncate up to fmutex.Lock(): fileDetails and the size check let the call
\* go on to the cached copy.
TruncateBegin(t, name, offset) ==
  /\ Serving /\ Idle(t)
  /\ mapMutex = 0
  /\ Has(files, name)
  /\ remotes[fileToRemote[name]].write /\ remotes[fileToRemote[name]].cacheData
  /\ offset <= files[name].size
  /\ Enter(t, "Truncate", "fileLock", name, Root, offset)
  /\ UNCHANGED <<lifeVars, nsVars, envVars, mapMutex, fmutex>>
  /\ NoReadReply

\* Truncate from fmutex.Lock() up to fs.mapMutex.Lock(): the cached copy is
\* cut and attr.Size set, as long as the attr is still the one of fs.files.
TruncateLockFile(t, getOK) ==
  /\ Serving /\ InCallback(t, "Truncate", "fileLock")
  /\ ~Has(fmutex, cb[t].name)
  /\ LET name == cb[t].name
         r == writeRemote
         res == truncateCache(r, name, cb[t].offset, getOK)
     IN /\ localFiles' = [localFiles EXCEPT ![r] = res.lf]
        /\ tracker' = [tracker EXCEPT ![r] = res.ct]
        /\ IF res.status # "OK"
           THEN /\ Return(t)
                /\ UNCHANGED <<files, fmutex>>
           ELSE /\ cb' = [cb EXCEPT ![t].pc = "mapLock"]
                /\ fmutex' = Put(fmutex, name, t)
                /\ files' = IF Has(files, name)
                            THEN [files EXCEPT ![name].size = cb[t].offset]
                            ELSE files
  /\ UNCHANGED <<lifeVars, dirs, dirContents, fileToRemote, createdFiles,
                 createdDirs, remoteObjs, uploadLog, handles, mapMutex>>
  /\ NoReadReply

\* Truncate from fs.mapMutex.Lock() to its return.
TruncateLockMap(t) ==
  /\ Serving /\ InCallback(t, "Truncate", "mapLock")
  /\ mapMutex = 0
  /\ createdFiles' = createdFiles \cup {cb[t].name}
  /\ fmutex' = Del(fmutex, cb[t].name)
  /\ Return(t)
  /\ UNCHANGED <<lifeVars, dirs, dirContents, files, fileToRemote, createdDirs,
                 envVars, mapMutex>>
  /\ NoReadReply

\* Rename of a file up to the first fmutex.Lock(): fs.mapMutex is taken, the
\* checks pass and the remote copy is made.
RenameBegin(t, oldPath, newPath) ==
  /\ Serving /\ Idle(t)
  /\ writeRemote # 0
  /\ mapMutex = 0
  /\ ~Has(dirs, oldPath) /\ Has(fileToRemote, oldPath)
  /\ remotes[writeRemote].cacheData
  /\ CanCopy(remoteObjs, writeRemote, oldPath, TRUE)
  /\ mapMutex' = t
  /\ remoteObjs' = copyFile(remoteObjs, writeRemote, oldPath, newPath)
  /\ Enter(t, "Rename", "oldLock", oldPath, newPath, 0)
  /\ UNCHANGED <<lifeVars, nsVars, localFiles, tracker, uploadLog, handles, fmutex>>
  /\ NoReadReply

\* Rename: fmutex.Lock() of the old local path.
RenameLockOld(t) ==
  /\ Serving /\ InCallback(t, "Rename", "oldLock")
  /\ ~Has(fmutex, cb[t].name)
  /\ fmutex' = Put(fmutex, cb[t].name, t)
  /\ cb' = [cb EXCEPT ![t].pc = "newLock"]
  /\ UNCHANGED <<lifeVars, nsVars, envVars, mapMutex>>
  /\ NoReadReply

\* Rename from fmutex2.Lock() of the new local path to its return, where the
\* deferred unlocks free the three locks.
RenameLockNew(t, mvOK) ==
  /\ Serving /\ InCallback(t, "Rename", "newLock")
  /\ ~Has(fmutex, cb[t].newName)
  /\ renameFileLocked(remoteObjs, cb[t].name, cb[t].newName, mvOK, TRUE, NoListFailure)
  /\ fmutex' = Del(fmutex, cb[t].name)
  /\ mapMutex' = 0
  /\ Return(t)
  /\ UNCHANGED <<lifeVars, uploadLog, handles>>
  /\ NoReadReply

\* Unlink up to fs.mapMutex.Lock(): fileDetails, the cached copy and the
\* remote object are deleted.
UnlinkBegin(t, name) ==
  /\ Serving /\ Idle(t)
  /\ mapMutex = 0
  /\ Has(files, name)
  /\ remotes[fileToRemote[name]].write
  /\ LET r == fileToRemote[name]
     IN /\ IF remotes[r].cacheData
           THEN /\ localFiles' = [localFiles EXCEPT ![r] = Del(@, name)]
                /\ tracker' = [tracker EXCEPT ![r] = CacheDelete(@, name)]
           ELSE UNCHANGED <<localFiles, tracker>>
        /\ remoteObjs' = deleteFile(remoteObjs, r, name, TRUE)
  /\ Enter(t, "Unlink", "mapLock", name, Root, 0)
  /\ UNCHANGED <<lifeVars, nsVars, uploadLog, handles, mapMutex, fmutex>>
  /\ NoReadReply

\* Unlink from fs.mapMutex.Lock() to its return.
UnlinkLockMap(t) ==
  /\ Serving /\ InCallback(t, "Unlink", "mapLock")
  /\ mapMutex = 0
  /\ SetNS(rmEntryFromItsDir(
             [NS EXCEPT !.files = Del(files, cb[t].name),
                        !.fileToRemote = Del(fileToRemote, cb[t].name)],
             cb[t].name))
  /\ createdFiles' = createdFiles \ {cb[t].name}
  /\ Return(t)
  /\ UNCHANGED <<lifeVars, createdDirs, envVars, mapMutex, fmutex>>
  /\ NoReadReply

\* ------------------------------------------------------- the specifications
HandlerStep(h) ==
  \/ HandlerRecvSignal(h)
  \/ HandlerSigClear(h)
  \/ HandlerStop(h)
  \/ HandlerIgnClear(h)
  \/ HandlerExit(h)

UnmountStep(t) ==
  \/ UnmountLock(t)
  \/ UnmountCancel(t)
  \/ UnmountKernel(t)
  \/ UnmountUpload(t)
  \/ UnmountCleanup(t)

\* The client and the kernel, no death signals.
Next ==
  \/ New
  \/ Mount
  \/ CallUnmount
  \/ UnmountStep(Main)
  \/ Create
  \/ Release

Spec == Init /\ [][Next]_vars

\* The state a successful New(config) leaves, objs being what the remotes
\* hold.
InitAfterNew(config, objs) ==
    LET res == NewLoop(config, 1, << >>, 0)
    IN /\ handle = "ready"
       /\ remotes = res.remotes
       /\ writeRemote = res.writeRemote
       /\ lastCall = [op |-> "New", err |-> ""]
       /\ mounted = FALSE
       /\ server = 0
       /\ mountCount = 0
       /\ handlingSignals = FALSE
       /\ deathSignals = 0
       /\ ignoreSignals = 0
       /\ mutex = -1
       /\ upc = [th \in Threads |-> "idle"]
       /\ uframe = [th \in Threads |-> NoFrame]
       /\ hpc = [h \in Handlers |-> "unborn"]
       /\ sigbuf = [h \in Handlers |-> 0]
       /\ notify = [h \in Handlers |-> FALSE]
       /\ signalsSent = 0
       /\ exitCode = -1
       /\ lastUnmount = NoUnmount
       /\ dirs = EmptyMap
       /\ dirContents = EmptyMap
       /\ files = EmptyMap
       /\ fileToRemote = EmptyMap
       /\ createdFiles = {}
       /\ createdDirs = {}
       /\ remoteObjs = objs
       /\ localFiles = [r \in RIdx |-> EmptyMap]
       /\ tracker = [r \in RIdx |-> EmptyMap]
       /\ uploadLog = {}
       /\ handles = {}
       /\ written = EmptyMap
       /\ lastRead = NoRead
       /\ cb = [c \in CbThreads |-> NoCallback]
       /\ mapMutex = 0
       /\ fmutex = EmptyMap

\* The state New leaves for a Config of one writeable target.
InitWith(objs) ==
  \E t \in {x \in Targets : x.Target = "url" /\ x.Write /\ ~x.CacheData} :
    InitAfterNew(<<t>>, objs)

InitOneWriter == InitWith(InitObjs)

\* The client, the kernel, death signals and the goroutines of UnmountOnDeath.
NextSignals ==
  \/ Mount
  \/ UnmountOnDeath
  \/ CallUnmount
  \/ DeliverSignal
  \/ \E h \in Handlers : HandlerStep(h)
  \/ \E t \in Threads : UnmountStep(t)
  \/ CreateB
  \/ Release

SpecSignals == InitOneWriter /\ [][NextSignals]_vars

\* The goroutines of the program run: a step that stays possible is taken, and
\* a goroutine waiting for fs.mutex gets it when it is free again and again
\* (sync.Mutex does not starve a waiter).  Nothing obliges the client to call,
\* the kernel to ask or a signal to arrive.
Fairness ==
  /\ \A h \in Handlers :
       /\ WF_vars(HandlerRecvSignal(h))
       /\ SF_vars(HandlerSigClear(h))
       /\ WF_vars(HandlerStop(h))
       /\ SF_vars(HandlerIgnClear(h))
       /\ WF_vars(HandlerExit(h))
  /\ \A t \in Threads :
       /\ SF_vars(UnmountLock(t))
       /\ WF_vars(UnmountCancel(t))
       /\ WF_vars(UnmountKernel(t))
       /\ WF_vars(UnmountUpload(t))
       /\ WF_vars(UnmountCleanup(t))

SpecFair == SpecSignals /\ Fairness

\* GetAttr and Open of the object "a" as a client that reads and writes it
\* meets them: the listings answer and the lock file can be made.
GetAttrA == GetAttrCall(<<"a">>, NoListFailure)

OpenA ==
  \E flags \in ReadOrWrite, dlOK \in BOOLEAN : OpenCall(<<"a">>, flags, TRUE, dlOK)

\* A client that reads and writes the object "a" of one writeable cached
\* remote.
NextRT ==
  \/ Mount
  \/ CallUnmount
  \/ UnmountStep(Main)
  \/ GetAttrA
  \/ OpenA
  \/ Write
  \/ Read
  \/ Release

SpecRT == InitOneWriter /\ [][NextRT]_vars

\* The callbacks of a client that works on files and directories of one
\* writeable cached remote; the kernel asks about a name in a directory it
\* knows, and the listings answer.
AllPaths == DeepPaths \cup DirPaths

\* The kernel makes a name after it has looked it up in vain, which has listed
\* the directory.
KernelMakes(name) ==
  /\ KernelKnows(name)
  /\ Has(dirContents, Dir(name))
  /\ ~Has(files, name)
  /\ ~Has(dirs, name)

\* The directory of name can take one more entry.
HasRoom(name) ==
  IF Has(dirContents, Dir(name)) THEN Len(dirContents[Dir(name)]) < MaxEntries
  ELSE TRUE

GetAttr == \E name \in AllPaths : KernelKnows(name) /\ GetAttrCall(name, NoListFailure)

OpenDir == \E name \in {Root} \cup DirPaths : OpenDirCall(name, NoListFailure)

CreateFile ==
  \E name \in DeepPaths :
    KernelMakes(name) /\ HasRoom(name) /\ CreateCall(name, TRUE, NoListFailure)

Unlink == \E name \in DeepPaths : KernelKnows(name) /\ UnlinkCall(name, TRUE)

Mkdir ==
  \E name \in DirPaths :
    KernelMakes(name) /\ HasRoom(name) /\ MkdirCall(name, TRUE, NoListFailure)

Rmdir == \E name \in DirPaths : RmdirCall(name, TRUE)

Rename ==
  \E oldPath \in AllPaths, newPath \in AllPaths :
    /\ oldPath # newPath
    /\ KernelKnows(oldPath) /\ KernelKnows(newPath) /\ HasRoom(newPath)
    /\ (oldPath \in DirPaths) = (newPath \in DirPaths)
    /\ RenameCall(oldPath, newPath, TRUE, TRUE, TRUE, TRUE, NoListFailure)

Symlink ==
  \E dest \in DeepPaths :
    KernelMakes(dest) /\ HasRoom(dest) /\ SymlinkCall(dest, TRUE, NoListFailure)

TruncateFile ==
  \E name \in DeepPaths, offset \in 0..MaxSize, getOK \in BOOLEAN :
    KernelKnows(name) /\ TruncateCall(name, offset, TRUE, getOK)

NextNS ==
  \/ Mount
  \/ GetAttr
  \/ OpenDir
  \/ CreateFile
  \/ Release
  \/ Unlink
  \/ Mkdir
  \/ Rmdir
  \/ Rename

SpecNS == InitOneWriter /\ [][NextNS]_vars

\* Callbacks on the files "a" and "b" of one writeable cached remote that run
\* together; GetAttr runs when fs.mapMutex is free.  The cache and the remote
\* answer.
GetAttrFree ==
  /\ mapMutex = 0
  /\ \E name \in Paths : GetAttrCall(name, NoListFailure)

CallbackStep(t) ==
  \/ \E name \in Paths, offset \in 0..MaxSize : TruncateBegin(t, name, offset)
  \/ TruncateLockFile(t, TRUE)
  \/ TruncateLockMap(t)
  \/ \E oldPath \in Paths, newPath \in Paths :
       oldPath # newPath /\ HasRoom(newPath) /\ RenameBegin(t, oldPath, newPath)
  \/ RenameLockOld(t)
  \/ RenameLockNew(t, TRUE)
  \/ \E name \in Paths : UnlinkBegin(t, name)
  \/ UnlinkLockMap(t)

NextLocks ==
  \/ Mount
  \/ GetAttrFree
  \/ \E t \in CbThreads : CallbackStep(t)

SpecLocks == InitOneWriter /\ [][NextLocks]_vars

\* A client that opens, reads, writes, truncates and renames the object "a" of
\* one writeable cached remote, whose bucket holds "a" with two bytes or with
\* none.
ObjContents == {<< >>, <<2, 2>>}

InitCache ==
  \E o \in ObjContents :
    InitWith([r \in RIdx |-> IF r = 1 THEN [p \in {<<"a">>} |-> o] ELSE EmptyMap])

OpenFile ==
  \E name \in Paths, flags \in ReadOrWrite, dlOK \in BOOLEAN :
    Has(files, name) /\ OpenCall(name, flags, TRUE, dlOK)

TruncateKnown ==
  \E name \in Paths, offset \in 0..MaxSize : TruncateCall(name, offset, TRUE, TRUE)

\* Rename of "a" to "b"; mvOK tells whether os.Rename moved the cache file.
RenameAB ==
  \E mvOK \in BOOLEAN :
    RenameCall(<<"a">>, <<"b">>, mvOK, TRUE, TRUE, TRUE, NoListFailure)

WriteOne ==
  \E h \in handles, off \in 0..(MaxSize - 1) : WriteCall(h, off, <<1>>)

NextCache ==
  \/ Mount
  \/ GetAttrA
  \/ OpenFile
  \/ Read
  \/ WriteOne
  \/ Release
  \/ TruncateKnown
  \/ RenameAB

SpecCache == InitCache /\ [][NextCache]_vars

\* The CacheTracker of the first remote on its own: its operations in any
\* order, on two local paths, with intervals of at least one byte.
ProperIntervals ==
  {[Start |-> st, End |-> e] : st \in 0..MaxOffset, e \in 0..MaxOffset} \cap
  {iv \in [Start : 0..MaxOffset, End : 0..MaxOffset] : iv.Start < iv.End}

TrackerStep(c) ==
  /\ tracker' = [tracker EXCEPT ![1] = c]
  /\ UNCHANGED <<lifeVars, nsVars, remoteObjs, localFiles, uploadLog, handles>>
  /\ NoReadReply
  /\ UNCHANGED cbVars

TrackCached == \E path \in Paths, iv \in ProperIntervals : TrackerStep(Cached(tracker[1], path, iv))

TrackTruncate ==
  \E path \in Paths, offset \in 0..MaxOffset :
    TrackerStep(CacheTruncate(tracker[1], path, offset))

TrackOverride ==
  \E path \in Paths, iv \in ProperIntervals :
    TrackerStep(CacheOverride(tracker[1], path, iv))

TrackRename ==
  \E oldPath \in Paths, newPath \in Paths :
    oldPath # newPath /\ TrackerStep(CacheRename(tracker[1], oldPath, newPath))

TrackDelete == \E path \in Paths : TrackerStep(CacheDelete(tracker[1], path))

TrackWipe == TrackerStep(CacheWipe(tracker[1]))

NextTracker ==
  \/ TrackCached
  \/ TrackTruncate
  \/ TrackOverride
  \/ TrackRename
  \/ TrackDelete
  \/ TrackWipe

SpecTracker == InitOneWriter /\ [][NextTracker]_vars

\* Two read-only uncached targets, multiplexed on one mount point.  Either
\* store may hold "a", "b" and "d/a"; an object of the first store has two
\* bytes and one of the second store has one, so that the attributes tell the
\* stores apart.  Any listing may fail.
TwoReaders ==
  LET t == [Target |-> "url", CacheData |-> FALSE, CacheDirSet |-> FALSE,
            Write |-> FALSE]
  IN <<t, t>>
DirKeys == Paths \cup {<<"d", "a">>}
DirObjs == {[r \in RIdx |-> [p \in (IF r = 1 THEN k1 ELSE k2) |->
                               IF r = 1 THEN <<2, 2>> ELSE <<2>>]] :
              k1 \in SUBSET DirKeys, k2 \in SUBSET DirKeys}
InitDir == \E objs \in DirObjs : InitAfterNew(TwoReaders, objs)

OpenDirAny ==
  \E name \in {Root} \cup DirPaths, fails \in ListFailures :
    OpenDirCall(name, fails)
GetAttrAny ==
  \E name \in AllPaths, fails \in ListFailures :
    KernelKnows(name) /\ GetAttrCall(name, fails)

NextDir ==
  \/ Mount
  \/ OpenDirAny
  \/ GetAttrAny

SpecDir == InitDir /\ [][NextDir]_vars

\* One writeable cached remote over a mount that the client may unmount: the
\* callbacks that make, remove and look up names, and Unmount.
NextSnap ==
  \/ Mount
  \/ GetAttr
  \/ OpenDir
  \/ CreateFile
  \/ Unlink
  \/ Mkdir
  \/ Rmdir
  \/ Symlink
  \/ CallUnmount
  \/ UnmountStep(Main)

SpecSnap == InitOneWriter /\ [][NextSnap]_vars

\* Two targets on one mount point, at most one of them writeable, cached or
\* not: the first store holds "a" and the second "b".  A client looks the two
\* names up and opens them with any flags; the lock file and the downloads
\* may fail.
TwoTargets ==
  {c \in [1..2 -> {t \in Targets : t.Target = "url"}] : ~(c[1].Write /\ c[2].Write)}
OpenObjs ==
  [r \in RIdx |-> IF r = 1 THEN [p \in {<<"a">>} |-> <<2, 2>>]
                  ELSE [p \in {<<"b">>} |-> <<2>>]]
InitOpen == \E c \in TwoTargets : InitAfterNew(c, OpenObjs)

GetAttrPath == \E name \in Paths : GetAttrCall(name, NoListFailure)
OpenAny ==
  \E name \in Paths, flags \in OpenFlags, lockOK \in BOOLEAN, dlOK \in BOOLEAN :
    OpenCall(name, flags, lockOK, dlOK)

NextOpen ==
  \/ Mount
  \/ GetAttrPath
  \/ OpenAny
  \/ Read
  \/ Release

SpecOpen == InitOpen /\ [][NextOpen]_vars

\* A client that opens, reads, writes and truncates the files of one writeable
\* cached remote whose object "a" has two bytes or none; the lock file and
\* the download of Truncate may fail.
TruncateAny ==
  \E name \in Paths, offset \in 0..MaxSize, lockOK \in BOOLEAN, getOK \in BOOLEAN :
    TruncateCall(name, offset, lockOK, getOK)

NextTrunc ==
  \/ Mount
  \/ GetAttrPath
  \/ OpenFile
  \/ Read
  \/ WriteOne
  \/ Release
  \/ TruncateAny

SpecTrunc == InitCache /\ [][NextTrunc]_vars

\* A client that makes, opens, removes and renames the files "a" and "b" on a
\* mount of a read-only cached target, whose store holds "a", and a writeable
\* target, whose store holds "b"; the remote copy and delete, the lock files
\* and the move in the cache may fail.
InitMove ==
  \E c \in {x \in TwoTargets : /\ ~x[1].Write /\ x[1].CacheData /\ ~x[1].CacheDirSet
                                /\ x[2].Write /\ x[2].CacheData} :
    InitAfterNew(c, OpenObjs)
CreatePath ==
  \E name \in Paths :
    KernelMakes(name) /\ HasRoom(name) /\ CreateCall(name, TRUE, NoListFailure)
UnlinkAny == \E name \in Paths, delOK \in BOOLEAN : UnlinkCall(name, delOK)
RenameAny ==
  \E oldPath \in Paths, newPath \in Paths :
    /\ oldPath # newPath
    /\ HasRoom(newPath)
    /\ \E mvOK \in BOOLEAN, copyOK \in BOOLEAN, lockOK \in BOOLEAN, delOK \in BOOLEAN :
         RenameCall(oldPath, newPath, mvOK, copyOK, lockOK, delOK, NoListFailure)

NextMove ==
  \/ Mount
  \/ GetAttrPath
  \/ CreatePath
  \/ OpenFile
  \/ Release
  \/ UnlinkAny
  \/ RenameAny

SpecMove == InitMove /\ [][NextMove]_vars

\* The status MuxFys.Mkdir(name, mode, context) returns.
MkdirStatus(name, fsOK) ==
  IF writeRemote = 0 THEN "EPERM"
  ELSE IF Has(dirs, name) THEN "OK"
  ELSE IF ~Has(dirs, Dir(name)) THEN "ENOENT"
  ELSE IF remotes[writeRemote].cacheData /\ ~fsOK THEN "EIO"
  ELSE "OK"

\* The status MuxFys.Rmdir(name, context) returns.
RmdirStatus(name, fsOK) ==
  IF writeRemote = 0 THEN "EPERM"
  ELSE IF ~Has(dirs, name) THEN "ENOENT"
  ELSE IF Has(dirContents, name) /\ Len(dirContents[name]) > 0 THEN "ENOSYS"
  ELSE IF remotes[writeRemote].cacheData /\ ~fsOK THEN "EIO"
  ELSE "OK"

\* A client that makes, removes and renames directories and makes and removes
\* the file "d/a" on a mount of one uncached read-only or one writeable
\* target, with a cache directory of its own or one the user gave, whose store
\* holds "a" and "e/a"; making and removing a directory in
\* the cache may fail, and a directory may be made where the parent is
\* missing.
\* The kernel has looked name up before it asks for it to be made, which has
\* listed its directory when that exists.
LookedUp(name) == Has(dirs, Dir(name)) => Has(dirContents, Dir(name))
MadePaths == DirPaths \cup {<<"d", "e">>, <<"b", "e">>}
DirsObjs ==
  [r \in RIdx |-> IF r = 1 THEN [p \in {<<"a">>, <<"e", "a">>} |-> <<2>>]
                  ELSE EmptyMap]
InitDirs ==
  \E t \in {x \in Targets : x.Target = "url" /\ ~x.CacheData
                                /\ (x.CacheDirSet => x.Write)} :
    InitAfterNew(<<t>>, DirsObjs)
GetAttrDirs ==
  \E name \in AllPaths \cup MadePaths :
    KernelKnows(name) /\ GetAttrCall(name, NoListFailure)
MkdirAny ==
  \E name \in MadePaths, fsOK \in BOOLEAN :
    /\ LookedUp(name)
    /\ HasRoom(name)
    /\ MkdirCall(name, fsOK, NoListFailure)
CreateInDir ==
  LET name == <<"d", "a">>
  IN KernelMakes(name) /\ HasRoom(name) /\ CreateCall(name, TRUE, NoListFailure)
UnlinkInDir == UnlinkCall(<<"d", "a">>, TRUE)
\* syscall.Rmdir of the directory of name in the cache can only work when the
\* directory is there: Mkdir made it, a cache file lies under it, or the cache
\* directory is one the user gave, which keeps what earlier mounts left.
CacheDirMayExist(name) ==
  IF writeRemote = 0 THEN FALSE
  ELSE \/ name \in createdDirs
       \/ ~remotes[writeRemote].cacheIsTmp
       \/ \E k \in DOMAIN localFiles[writeRemote] :
            Len(k) > Len(name) /\ SubSeq(k, 1, Len(name)) = name
RmdirAny ==
  \E name \in MadePaths, fsOK \in BOOLEAN :
    /\ fsOK => CacheDirMayExist(name)
    /\ RmdirCall(name, fsOK)
RenameDirAny ==
  \E oldPath \in DirPaths, newPath \in DirPaths, mvOK \in BOOLEAN :
    /\ oldPath # newPath
    /\ HasRoom(newPath)
    /\ RenameCall(oldPath, newPath, mvOK, TRUE, TRUE, TRUE, NoListFailure)

NextDirs ==
  \/ Mount
  \/ GetAttrDirs
  \/ MkdirAny
  \/ RmdirAny
  \/ RenameDirAny
  \/ CreateInDir
  \/ UnlinkInDir
  \/ Release

SpecDirs == InitDirs /\ [][NextDirs]_vars

\* The status MuxFys.Symlink(source, dest, context) returns; os.Symlink fails
\* when the cache holds a file of that name.
SymlinkStatus(dest, lockOK) ==
  IF writeRemote = 0 THEN "ENOSYS"
  ELSE IF ~remotes[writeRemote].cacheData THEN "ENOSYS"
  ELSE IF ~lockOK THEN "EIO"
  ELSE IF Has(localFiles[writeRemote], dest) THEN "EEXIST"
  ELSE "OK"

\* A client that makes and removes files and symbolic links named "a" and "b"
\* on a mount of one uncached read-only or one writeable target and unmounts;
\* the lock file of a link may fail.
InitLink ==
  \E t \in {x \in Targets : x.Target = "url" /\ ~x.CacheData /\ ~x.CacheDirSet} :
    InitAfterNew(<<t>>, InitObjs)
SymlinkAny ==
  \E dest \in Paths, lockOK \in BOOLEAN :
    /\ writeRemote # 0 => KernelMakes(dest)
    /\ HasRoom(dest)
    /\ SymlinkCall(dest, lockOK, NoListFailure)

NextLink ==
  \/ Mount
  \/ GetAttrPath
  \/ SymlinkAny
  \/ CreatePath
  \/ UnlinkAny
  \/ Release
  \/ CallUnmount
  \/ UnmountStep(Main)

SpecLink == InitLink /\ [][NextLink]_vars

\* A client that reads the file "a" of one writeable target through its
\* cache, which is the target's own or a directory the user gave, and
\* unmounts and mounts again.
InitWipe ==
  \E t \in {x \in Targets : x.Target = "url" /\ x.Write /\ ~x.CacheData} :
    InitAfterNew(<<t>>, InitObjs)

NextWipe ==
  \/ Mount
  \/ GetAttrA
  \/ OpenA
  \/ Read
  \/ Release
  \/ CallUnmount
  \/ UnmountStep(Main)

SpecWipe == InitWipe /\ [][NextWipe]_vars

\* Mkdir up to the first test, with fs.mapMutex taken and its Unlock deferred.
MkdirBegin(t, name) ==
  /\ Serving /\ Idle(t)
  /\ writeRemote # 0
  /\ mapMutex = 0
  /\ mapMutex' = t
  /\ Enter(t, "Mkdir", "locked", name, Root, 0)
  /\ UNCHANGED <<lifeVars, nsVars, envVars, fmutex>>
  /\ NoReadReply

\* The exit status of a Go program that ends with a fatal error.
FatalStatus == 2

\* fs.mapMutex.Unlock() by goroutine t.  sync.Mutex.Unlock of a mutex that is
\* not locked is the fatal error "sync: unlock of unlocked mutex", which ends
\* the process; a mutex another goroutine has locked is unlocked all the same.
\* The callback returns after the deferred Unlock, and goes on after an
\* Unlock in its body.
UnlockMap(t, deferred) ==
  IF mapMutex = 0
  THEN /\ exitCode' = FatalStatus
       /\ UNCHANGED <<handle, remotes, writeRemote, mounted, server, mountCount,
                      handlingSignals, deathSignals, ignoreSignals, mutex, upc,
                      uframe, hpc, sigbuf, notify, signalsSent, lastUnmount,
                      lastCall, mapMutex, cb>>
  ELSE /\ mapMutex' = 0
       /\ IF deferred THEN Return(t) ELSE cb' = [cb EXCEPT ![t].pc = "deferred"]
       /\ UNCHANGED lifeVars

\* Mkdir from its tests to its return statements.  When the directory cannot
\* be made in the cache, fs.mapMutex.Unlock() is called before the return and
\* the deferred Unlock is still to run; on every other path the deferred
\* Unlock runs with the return.
MkdirLocked(t, fsOK) ==
  /\ Serving /\ InCallback(t, "Mkdir", "locked")
  /\ LET name == cb[t].name
     IN IF Has(dirs, name) \/ ~Has(dirs, Dir(name))
        THEN /\ UnlockMap(t, TRUE)
             /\ UNCHANGED nsVars
        ELSE IF remotes[writeRemote].cacheData /\ ~fsOK
        THEN /\ UnlockMap(t, FALSE)
             /\ UNCHANGED nsVars
        ELSE LET ns1 == [NS EXCEPT
                           !.dirs = AppendAt(dirs, name, writeRemote),
                           !.dirContents = IF Has(dirContents, name) THEN dirContents
                                           ELSE Put(dirContents, name, << >>)]
             IN /\ SetNS(addNewEntryToItsDir(ns1, name, "DIR", NoListFailure))
                /\ createdDirs' = IF remotes[writeRemote].cacheData
                                  THEN createdDirs \cup {name} ELSE createdDirs
                /\ UNCHANGED createdFiles
                /\ UnlockMap(t, TRUE)
  /\ UNCHANGED <<envVars, fmutex>>
  /\ NoReadReply

\* The deferred fs.mapMutex.Unlock() of a Mkdir that has unlocked already.
MkdirDeferred(t) ==
  /\ Serving /\ InCallback(t, "Mkdir", "deferred")
  /\ UnlockMap(t, TRUE)
  /\ UNCHANGED <<nsVars, envVars, fmutex>>
  /\ NoReadReply

MkdirStep(t) ==
  \/ \E name \in DirPaths : HasRoom(name) /\ MkdirBegin(t, name)
  \/ \E fsOK \in BOOLEAN : MkdirLocked(t, fsOK)
  \/ MkdirDeferred(t)

\* Truncate of a file as it runs beside other callbacks.
TruncateStep(t) ==
  \/ \E name \in Paths, offset \in 0..MaxSize : TruncateBegin(t, name, offset)
  \/ \E getOK \in BOOLEAN : TruncateLockFile(t, getOK)
  \/ TruncateLockMap(t)

\* Mkdir and Truncate callbacks that run together on one writeable cached
\* remote.
NextUnlock ==
  \/ Mount
  \/ GetAttrFree
  \/ \E t \in CbThreads : TruncateStep(t)
  \/ \E t \in CbThreads : MkdirStep(t)

SpecUnlock == InitOneWriter /\ [][NextUnlock]_vars

\* A client that opens the file "a" of one writeable target with an ephemeral
\* cache for reading, for writing or for appending, reads it whole, writes one byte
\* at or before its end, truncates it and unmounts; downloads may fail.
UploadFlags == {{}, {"O_RDWR"}, {"O_WRONLY", "O_APPEND"}}
OpenUp ==
  \E flags \in UploadFlags, dlOK \in BOOLEAN : OpenCall(<<"a">>, flags, TRUE, dlOK)
WriteDense ==
  \E h \in handles, off \in 0..(MaxSize - 1) :
    /\ IF Has(files, h.path) THEN off <= files[h.path].size ELSE FALSE
    /\ IF Has(localFiles[h.r], h.path) THEN off <= Len(localFiles[h.r][h.path])
       ELSE FALSE
    /\ WriteCall(h, off, <<1>>)
TruncateA ==
  \E offset \in 0..MaxSize, getOK \in BOOLEAN : TruncateCall(<<"a">>, offset, TRUE, getOK)

ReadWhole ==
  \E h \in handles, dlOK \in BOOLEAN : ReadCall(h, 0, MaxSize, dlOK)

\* The client mounts again until an Unmount has uploaded something.
MountFresh == uploadLog = {} /\ Mount

NextUp ==
  \/ MountFresh
  \/ GetAttrA
  \/ OpenUp
  \/ ReadWhole
  \/ WriteDense
  \/ Release
  \/ TruncateA
  \/ CallUnmount
  \/ UnmountStep(Main)

SpecUp == InitOneWriter /\ [][NextUp]_vars

\* ------------------------------------------------------------------ claims
Writers(config) == {i \in DOMAIN config : config[i].Write}
WriteableRemotes == {i \in 1..Len(remotes) : remotes[i].write}
TwoWritersErr == "you can't have more than one writeable target"

C1_Inv ==
  /\ Cardinality(WriteableRemotes) <= 1
  /\ writeRemote # 0 => WriteableRemotes = {writeRemote}
  /\ (handle = "ready" /\ WriteableRemotes # {}) => writeRemote \in WriteableRemotes
  /\ lastCall = [op |-> "New", err |-> TwoWritersErr] =>
       (handle = "rejected" /\ ~mounted /\ remotes = << >> /\ writeRemote = 0)
  /\ mounted => handle = "ready"

C1_Rejects ==
  (handle = "none" /\ handle' # "none") =>
    \A config \in Configs :
      (NewCall(config) /\ Cardinality(Writers(config)) > 1) =>
        (handle' = "rejected" /\ lastCall'.err # "" /\ ~mounted')

\* C1: New rejects every Config with more than one writeable target with an
\* error, and a rejected handle is never mounted; in every reachable state at
\* most one remote has write = true and fs.writeRemote, when set, is that
\* remote.
C1_OneWriteRemote == [][C1_Rejects /\ C1_Inv']_vars

\* C1 witness: New has just refused a Config of two writeable targets.
C1_Witness ==
  /\ handle = "rejected"
  /\ lastCall = [op |-> "New", err |-> TwoWritersErr]

UploadStep == \E t \in Threads : upc[t] = "upload" /\ upc'[t] = "cleanup"
Returned(u) == u.by # -1
Uploaded(u) == {e.path : e \in {x \in u.log : x.ok}}
Failed(u) == {e.path : e \in {x \in u.log : ~x.ok}}

\* Only the upload step of Unmount issues uploadFile or changes a remote
\* store, and what it uploads is the cache file.
C2_OnlyUnmountUploads ==
  /\ (remoteObjs' # remoteObjs \/ ~(uploadLog' \subseteq uploadLog)) => UploadStep
  /\ \A e \in uploadLog' \ uploadLog :
       /\ mutex \in Threads /\ upc[mutex] = "upload" /\ ~uframe[mutex].skip
       /\ e.remote = writeRemote
       /\ e.ok => /\ Has(remoteObjs'[e.remote], e.path)
                  /\ remoteObjs'[e.remote][e.path] = localFiles[e.remote][e.path]

C2_AllUploaded ==
  (Returned(lastUnmount) /\ lastUnmount.ok) =>
     lastUnmount.start \subseteq Uploaded(lastUnmount)

C2_AllUploadedUnlessSkipped ==
  (Returned(lastUnmount) /\ lastUnmount.ok /\ ~lastUnmount.skip) =>
     lastUnmount.start \subseteq Uploaded(lastUnmount)

C3_RoundTrip ==
  (/\ lastRead.status = "OK"
   /\ Has(written, lastRead.path)
   /\ written[lastRead.path].off = lastRead.off
   /\ Len(written[lastRead.path].data) = lastRead.size
   /\ \/ /\ lastRead.mount = written[lastRead.path].mount
         /\ written[lastRead.path].um = "none"
      \/ /\ lastRead.mount = written[lastRead.path].mount + 1
         /\ written[lastRead.path].um \in {"ok", "skipped"})
  => lastRead.data = written[lastRead.path].data

C5_ResidueKept ==
  [][\A t \in Threads :
       (upc[t] = "cleanup" /\ upc'[t] = "idle" /\ uframe[t].fails > 0) =>
          createdFiles' \cap uframe[t].start =
            {e.path : e \in {x \in uploadLog : ~x.ok}}]_vars

MapsEmpty ==
  /\ dirs = EmptyMap /\ dirContents = EmptyMap /\ files = EmptyMap
  /\ fileToRemote = EmptyMap /\ createdFiles = {} /\ createdDirs = {}

C8_SignalUnmounts ==
  /\ \A h \in Handlers :
       (hpc[h] = "select" /\ sigbuf[h] > 0 /\ upc[Main] = "idle")
          ~> (exitCode # -1 \/ upc[Main] # "idle")
  /\ [](exitCode # -1 =>
          \E h \in Handlers :
            /\ hpc[h] = "exited"
            /\ exitCode = IF UnmountErr(uframe[h]) = "" THEN 1 ELSE 2
            /\ (exitCode = 2 /\ uframe[h].fails = 0) => uframe[h].kerr)

\* C9 (as stated): after the client's Unmount has cancelled the handler,
\* handlingSignals becomes false.
C9_HandlerCancelled ==
  \A h \in Handlers :
    (hpc[h] = "ignored" /\ upc[Main] = "kernel") ~> ~handlingSignals

\* The handlers that wait for a signal, and those that wait for one or are
\* busy with the one they took.
WaitingHandlers == {h \in Handlers : hpc[h] = "select"}
ActiveHandlers == {h \in Handlers : hpc[h] \in {"select", "sigLock", "unmount", "exit"}}

\* C10 (as stated): UnmountOnDeath called on a handle that is not mounted
\* starts no handler and leaves handlingSignals false; called on a mounted
\* handle it leaves a handler in charge of the death signals, and never more
\* than one waiting for them.
C10_OneHandler ==
  [][(UnmountOnDeath /\ lastCall # lastCall') =>
        IF mounted
        THEN Cardinality(WaitingHandlers') <= 1 /\ ActiveHandlers' # {}
        ELSE ~handlingSignals' /\ UNCHANGED <<handlingSignals, hpc>>]_vars
\* A step that is an unlink, rmdir or rename callback on the path p.
RemovesPath(p) ==
  \/ \E delOK \in BOOLEAN : UnlinkCall(p, delOK)
  \/ \E fsOK \in BOOLEAN : RmdirCall(p, fsOK)
  \/ \E newPath \in AllPaths, mvOK \in BOOLEAN, copyOK \in BOOLEAN, delOK \in BOOLEAN :
       RenameCall(p, newPath, mvOK, copyOK, TRUE, delOK, NoListFailure)

\* C12: over a step that leaves the handle mounted, every path of dirs stays
\* in dirs and every path of files stays in files, unless the step is an
\* unlink, rmdir or rename callback on that path.
C12_Monotonic ==
  [][(mounted /\ mounted') =>
       \A p \in (DOMAIN dirs) \cup (DOMAIN files) :
         \/ /\ (p \in DOMAIN dirs => p \in DOMAIN dirs')
            /\ (p \in DOMAIN files => p \in DOMAIN files')
         \/ RemovesPath(p)]_vars

\* C13: every path of files is bound in fileToRemote to one of the configured
\* remotes, and every path with directory contents is a path of dirs.
C13_MapsAgree ==
  /\ \A p \in DOMAIN files :
       Has(fileToRemote, p) /\ fileToRemote[p] \in 1..Len(remotes)
  /\ \A p \in DOMAIN dirContents : Has(dirs, p)

\* C14: every entry of dirContents[p] names a path of files or of dirs.
C14_EntriesResolve ==
  \A p \in DOMAIN dirContents :
    \A i \in DOMAIN dirContents[p] :
      LET q == Join(p, dirContents[p][i].name)
      IN Has(files, q) \/ Has(dirs, q)

\* Goroutine t waits for a lock that goroutine u holds.
Blocked(t, u) ==
  \/ cb[t].pc = "mapLock" /\ mapMutex = u
  \/ /\ cb[t].pc \in {"fileLock", "oldLock"}
     /\ Has(fmutex, cb[t].name)
     /\ fmutex[cb[t].name] = u
  \/ /\ cb[t].pc = "newLock"
     /\ Has(fmutex, cb[t].newName)
     /\ fmutex[cb[t].newName] = u

\* C11: no two callbacks wait for a lock the other one holds.
C11_NoCircularWait ==
  \A t \in CbThreads, u \in CbThreads :
    ~(t # u /\ Blocked(t, u) /\ Blocked(u, t))

\* C15: every path of createdFiles is a path of files, and the remote it is
\* bound to is writeable.
C15_CreatedAreFiles ==
  \A p \in createdFiles :
    /\ Has(files, p)
    /\ Has(fileToRemote, p)
    /\ remotes[fileToRemote[p]].write

\* The bytes the tracker of remote r holds for path.
Tracked(r, path) == Cover(CachedOf(tracker[r], path))

\* C16: the bytes the tracker holds for a local path are bytes of the cache
\* file of that path, none of them a hole; and after a read that succeeded the
\* range read, clipped to the size of the file, is held by the tracker.
C16_TrackerHonest ==
  /\ \A r \in 1..Len(remotes) : \A path \in DOMAIN tracker[r] :
       \A i \in Tracked(r, path) :
         /\ Has(localFiles[r], path)
         /\ i < Len(localFiles[r][path])
         /\ localFiles[r][path][i + 1] # 0
  /\ (lastRead.status = "OK" /\ Has(files, lastRead.path)) =>
       LET path == lastRead.path
       IN (lastRead.off..(Min(lastRead.off + lastRead.size, files[path].size) - 1))
             \subseteq Tracked(fileToRemote[path], path)

\* Canonical Intervals: every interval has Start < End, and each one ends
\* before the next one starts.
Canonical(ivs) ==
  /\ \A i \in DOMAIN ivs : ivs[i].Start < ivs[i].End
  /\ \A i \in DOMAIN ivs : i < Len(ivs) => ivs[i].End < ivs[i + 1].Start

\* C17: the Intervals the tracker stores for a path are canonical.
C17_Canonical ==
  \A r \in 1..Len(remotes) : \A path \in DOMAIN tracker[r] :
    Canonical(tracker[r][path])

\* The probes of Uncached: intervals of the tracker's range, the empty ones
\* among them.
Probes == {iv \in [Start : 0..MaxOffset, End : 0..MaxOffset] : iv.Start <= iv.End}

Listed(r, name, fails) == findObjects(r, name, fails[r]).objects
EntryNames(es) == {es[i].name : i \in DOMAIN es}
Contributing(name) == {dirs[name][i] : i \in DOMAIN dirs[name]}
\* OpenDir(name) lists the directory in this step.
OpenDirLists(name, fails) ==
  /\ Has(dirs, name)
  /\ ~Has(dirContents, name)
  /\ OpenDirCall(name, fails)

\* C19: when OpenDir lists a directory, every entry that a contributing remote
\* listed is in dirContents (which is what OpenDir returns) afterwards, also
\* when another contributing remote listed nothing or failed to list.
C19_UnionOfListings ==
  [][\A name \in {Root} \cup DirPaths, fails \in ListFailures :
       OpenDirLists(name, fails) =>
         \A r \in Contributing(name) :
           \A n \in EntryNames(Listed(r, name, fails)) :
             /\ Has(dirContents', name)
             /\ n \in EntryNames(dirContents'[name])]_vars

\* C20: when OpenDir lists a directory and more than one contributing remote
\* listed the same name, dirContents has exactly one entry of that name
\* afterwards, and when the first of those remotes listed a file, files and
\* fileToRemote hold that remote and the size it listed.
C20_FirstRemoteWins ==
  [][\A name \in {Root} \cup DirPaths, fails \in ListFailures :
       OpenDirLists(name, fails) =>
         \A n \in {NameOrder[i] : i \in DOMAIN NameOrder} :
           LET listers == {r \in Contributing(name) :
                             n \in EntryNames(Listed(r, name, fails))}
               first == CHOOSE r \in listers : \A q \in listers : r <= q
               es == Listed(first, name, fails)
               asFile == {i \in DOMAIN es : es[i].name = n /\ ~es[i].isDir}
               thisPath == Join(name, n)
           IN Cardinality(listers) > 1 =>
                /\ Has(dirContents', name)
                /\ Cardinality({i \in DOMAIN dirContents'[name] :
                                  dirContents'[name][i].name = n}) = 1
                /\ \A i \in asFile :
                     /\ Has(files', thisPath)
                     /\ files'[thisPath].size = es[i].size
                     /\ fileToRemote'[thisPath] = first]_vars

\* GetAttr(name) lists the parent of name in this step.
GetAttrLists(name, fails) ==
  /\ ~Has(dirs, name)
  /\ ~Has(files, name)
  /\ Has(dirs, Dir(name))
  /\ ~Has(dirContents, Dir(name))
  /\ GetAttrCall(name, fails)
ListedEmpty(m, name) == IF Has(m, name) THEN m[name] = << >> ELSE FALSE

\* C21: when a GetAttr or an OpenDir lists a directory and the listing of a
\* contributing remote fails, the call returns EIO and the directory is not
\* recorded with empty contents.
C21_ListingErrorPropagates ==
  [][\A fails \in ListFailures :
       /\ \A name \in {Root} \cup DirPaths :
            (OpenDirLists(name, fails) /\ \E r \in Contributing(name) : fails[r])
              => /\ OpenDirStatus(name, fails) = "EIO"
                 /\ ~ListedEmpty(dirContents', name)
       /\ \A name \in AllPaths :
            (GetAttrLists(name, fails) /\ \E r \in Contributing(Dir(name)) : fails[r])
              => /\ GetAttrStatus(name, fails) = "EIO"
                 /\ ~ListedEmpty(dirContents', Dir(name))]_vars

\* A step of one of the callbacks that change the entries of a directory.
NamespaceOp ==
  \/ \E name \in AllPaths, ok \in BOOLEAN, fails \in ListFailures :
       \/ CreateCall(name, ok, fails)
       \/ MkdirCall(name, ok, fails)
       \/ SymlinkCall(name, ok, fails)
  \/ \E name \in AllPaths, ok \in BOOLEAN :
       \/ UnlinkCall(name, ok)
       \/ RmdirCall(name, ok)
  \/ \E oldPath \in AllPaths, newPath \in AllPaths, fails \in ListFailures :
       \E mvOK \in BOOLEAN, copyOK \in BOOLEAN, lockOK \in BOOLEAN, delOK \in BOOLEAN :
         RenameCall(oldPath, newPath, mvOK, copyOK, lockOK, delOK, fails)
Children(p) == {name \in AllPaths : Dir(name) = p}
Known(ns, name) == Has(ns.dirs, name) \/ Has(ns.files, name)

\* C22: while the mount lasts, a GetAttr of an unknown name whose directory p
\* has no cached contents lists p on each of its remotes and answers from the
\* maps; once dirContents[p] is there, GetAttr of a child of p and OpenDir of p
\* list nothing, and dirContents[p] changes only in a step of Create, Unlink,
\* Mkdir, Rmdir, Rename or Symlink.
C22_Snapshot ==
  [][(mounted /\ mounted') =>
       \A p \in {Root} \cup DirPaths :
         /\ \A name \in Children(p), fails \in ListFailures :
              GetAttrLists(name, fails) =>
                /\ GetAttrListed(name) = dirs[p]
                /\ GetAttrStatus(name, fails) =
                     IF Has(dirs', name) \/ Has(files', name) THEN "OK" ELSE "ENOENT"
         /\ Has(dirContents, p) =>
              /\ OpenDirListed(p) = << >>
              /\ \A name \in Children(p) : GetAttrListed(name) = << >>
              /\ (IF Has(dirContents', p) THEN dirContents'[p] # dirContents[p]
                  ELSE TRUE) => NamespaceOp]_vars

\* C23: an Open of a path that is not in files returns ENOENT; an Open with a
\* write-type flag of a file whose remote is not writeable returns EPERM and
\* leaves the namespace, the tracker and the cache files alone; and the handle
\* an Open gives lets the client write only when the remote is writeable and
\* O_WRONLY or O_RDWR is among the flags.
C23_OpenChecks ==
  [][/\ \A name \in Paths, flags \in OpenFlags, lockOK \in BOOLEAN, dlOK \in BOOLEAN :
          IF ~Has(files, name)
          THEN /\ OpenStatus(name, flags, lockOK, dlOK) = "ENOENT"
               /\ OpenCall(name, flags, lockOK, dlOK) => handles' = handles
          ELSE (flags # {} /\ ~remotes[fileToRemote[name]].write) =>
                 /\ OpenStatus(name, flags, lockOK, dlOK) = "EPERM"
                 /\ <<nsVars, tracker, localFiles, handles>>'
                      # <<nsVars, tracker, localFiles, handles>>
                      => ~OpenCall(name, flags, lockOK, dlOK)
     /\ \A h \in handles' \ handles :
          h.write =>
            /\ remotes[h.r].write
            /\ h.r = fileToRemote[h.path]
            /\ \A flags \in OpenFlags, lockOK \in BOOLEAN, dlOK \in BOOLEAN :
                 OpenCall(h.path, flags, lockOK, dlOK) =>
                   ("O_WRONLY" \in flags \/ "O_RDWR" \in flags)]_vars

\* A file of a remote that is not writeable is known, and a handle that lets
\* the client write is open on a file of the writeable remote.
C23_Witness ==
  /\ Serving
  /\ \E name \in DOMAIN files : ~remotes[fileToRemote[name]].write
  /\ \E h \in handles : h.write /\ remotes[h.r].write

\* The flags of an Open that keeps the contents of the file: none, or O_APPEND
\* with any others.
KeepingFlags == {flags \in OpenFlags : flags = {} \/ "O_APPEND" \in flags}

\* C24: after a successful Open of a file of a cached remote without write
\* flags the cache file is there and as long as attr.Size.  When the Open had
\* to make the cache file (it was missing or of another size): with a cache
\* directory of the user's or with O_APPEND the cache file is the whole
\* object, as long as attr.Size, and the tracker holds [0, size) for it;
\* otherwise the cache file is a sparse file as long as attr.Size and the
\* tracker holds nothing for it.
C24_OpenedCacheFile ==
  [][\A h \in handles' \ handles :
       \A flags \in KeepingFlags, lockOK \in BOOLEAN, dlOK \in BOOLEAN :
         (remotes[h.r].cacheData /\ OpenCall(h.path, flags, lockOK, dlOK)) =>
           LET r == h.r
               name == h.path
               create == IF Has(localFiles[r], name)
                         THEN Len(localFiles[r][name]) # files[name].size
                         ELSE TRUE
               size == files'[name].size
           IN /\ Has(localFiles'[r], name)
              /\ flags = {} => Len(localFiles'[r][name]) = size
              /\ create =>
                   IF ~remotes[r].cacheIsTmp \/ "O_APPEND" \in flags
                   THEN /\ localFiles'[r][name] = remoteObjs[r][name]
                        /\ Len(localFiles'[r][name]) = size
                        /\ Cover(CachedOf(tracker'[r], name)) = 0..(size - 1)
                   ELSE /\ localFiles'[r][name] = Sparse(size)
                        /\ CachedOf(tracker'[r], name) = << >>]_vars

\* A file is open for reading on a remote with a cache directory of the
\* user's after its whole object was downloaded, or on a remote with a
\* temporary cache over a sparse file the tracker holds nothing of.
C24_Witness ==
  \E h \in handles :
    /\ ~h.write /\ remotes[h.r].cacheData
    /\ Has(localFiles[h.r], h.path) /\ Has(files, h.path)
    /\ files[h.path].size = 2
    /\ remotes[h.r].cacheIsTmp
    /\ localFiles[h.r][h.path] = Sparse(2)
    /\ CachedOf(tracker[h.r], h.path) = << >>

\* Truncate(name, offset) of a known file of the writeable cached remote.
TruncatesCached(name, offset, lockOK, getOK) ==
  /\ Has(files, name)
  /\ IF Has(files, name)
     THEN remotes[fileToRemote[name]].write /\ remotes[fileToRemote[name]].cacheData
     ELSE FALSE
  /\ TruncateCall(name, offset, lockOK, getOK)

\* C25: a Truncate to an offset that is attr.Size or more returns OK and
\* leaves attr.Size, createdFiles, the tracker, the cache files and the remote
\* as they were.
C25_TruncateNoOp ==
  [][\A name \in Paths, offset \in 0..MaxSize, lockOK \in BOOLEAN, getOK \in BOOLEAN :
       (TruncatesCached(name, offset, lockOK, getOK) /\ offset >= files[name].size)
         => /\ TruncateStatus(name, offset, lockOK, getOK) = "OK"
            /\ UNCHANGED <<nsVars, tracker, localFiles, remoteObjs>>]_vars

\* C26: after a Truncate of a file of the writeable cached remote to an
\* offset below attr.Size that returned OK, attr.Size is the offset, the path
\* is in createdFiles, the cache file is offset bytes long and the tracker
\* holds nothing beyond the offset for it; a cache file that was not there is
\* made of the first offset bytes of the object and the tracker holds
\* [0, offset).  A Truncate that returned an error leaves attr.Size and
\* createdFiles alone.
C26_TruncateCuts ==
  [][\A name \in Paths, offset \in 0..MaxSize, lockOK \in BOOLEAN, getOK \in BOOLEAN :
       (TruncatesCached(name, offset, lockOK, getOK) /\ offset < files[name].size)
         => LET r == fileToRemote[name]
                ivs == CachedOf(tracker'[r], name)
            IN IF TruncateStatus(name, offset, lockOK, getOK) = "OK"
               THEN /\ files'[name].size = offset
                    /\ name \in createdFiles'
                    /\ Has(localFiles'[r], name)
                    /\ Len(localFiles'[r][name]) = offset
                    /\ \A i \in DOMAIN ivs : ivs[i].End <= offset
                    /\ ~Has(localFiles[r], name) =>
                         /\ localFiles'[r][name] = SubSeq(remoteObjs[r][name], 1, offset)
                         /\ Cover(ivs) = 0..(offset - 1)
               ELSE /\ files'[name].size = files[name].size
                    /\ createdFiles' = createdFiles]_vars

\* A file whose object has two bytes was cut to one: its cache file has one
\* byte and the tracker holds nothing beyond it.
C26_Witness ==
  \E name \in DOMAIN files :
    LET r == fileToRemote[name]
    IN /\ name \in createdFiles
       /\ files[name].size = 1
       /\ handles = {}
       /\ Has(remoteObjs[r], name) /\ Has(localFiles[r], name)
       /\ localFiles[r][name] = <<2>>
       /\ CachedOf(tracker[r], name) = <<[Start |-> 0, End |-> 1]>>

\* The directory of name has an entry for it in dc.
HasEntry(dc, name) ==
  IF Has(dc, Dir(name))
  THEN \E i \in DOMAIN dc[Dir(name)] : dc[Dir(name)][i].name = Base(name)
  ELSE FALSE

\* C27: after an Unlink of a file of the write remote the path is in none of
\* files, fileToRemote and createdFiles, its directory has no entry for it and
\* the tracker holds nothing for it, whether or not deleteFile worked; an
\* Unlink of a file of a remote that is not writeable returns EPERM and
\* changes nothing.
C27_UnlinkScrubs ==
  [][\A name \in Paths, delOK \in BOOLEAN :
       (Has(files, name) /\ UnlinkCall(name, delOK)) =>
         IF remotes[fileToRemote[name]].write
         THEN /\ ~Has(files', name)
              /\ ~Has(fileToRemote', name)
              /\ name \notin createdFiles'
              /\ ~HasEntry(dirContents', name)
              /\ ~Has(tracker'[fileToRemote[name]], name)
         ELSE /\ UnlinkStatus(name, delOK) = "EPERM"
              /\ UNCHANGED <<nsVars, remoteObjs, localFiles, tracker>>]_vars

\* Rename(oldPath, newPath) of a known file on a mount with a write remote.
RenamesFile(oldPath, newPath, mvOK, copyOK, lockOK, delOK) ==
  /\ writeRemote # 0
  /\ ~Has(dirs, oldPath)
  /\ Has(fileToRemote, oldPath)
  /\ RenameCall(oldPath, newPath, mvOK, copyOK, lockOK, delOK, NoListFailure)

\* C28: a Rename of a file whose remote copy fails returns the error and
\* leaves the namespace, the tracker, the cache files and the remote stores as
\* they were.
C28_FailedCopyNoEffect ==
  [][\A oldPath \in Paths, newPath \in Paths :
       \A mvOK \in BOOLEAN, copyOK \in BOOLEAN, lockOK \in BOOLEAN, delOK \in BOOLEAN :
         (/\ writeRemote # 0
          /\ ~Has(dirs, oldPath)
          /\ Has(fileToRemote, oldPath)
          /\ IF writeRemote # 0
             THEN ~copyOK \/ ~Has(remoteObjs[writeRemote], oldPath)
             ELSE FALSE)
           => /\ RenameStatus(oldPath, newPath, mvOK, copyOK, lockOK) = "EIO"
              /\ <<nsVars, tracker, localFiles, remoteObjs>>'
                   # <<nsVars, tracker, localFiles, remoteObjs>>
                   => ~RenamesFile(oldPath, newPath, mvOK, copyOK, lockOK, delOK)]_vars

\* The file "a" of the read-only remote is known and open and the write
\* remote has no object "a": the copy of a Rename of "a" fails.
C28_Witness ==
  /\ Serving
  /\ writeRemote # 0
  /\ Has(fileToRemote, <<"a">>)
  /\ IF writeRemote # 0 THEN ~Has(remoteObjs[writeRemote], <<"a">>) ELSE FALSE
  /\ \E h \in handles : h.path = <<"a">>
  /\ Has(fileToRemote, <<"b">>)

\* C29: after a Rename of a file that returned OK, files[new] and
\* fileToRemote[new] are what files[old] and fileToRemote[old] were; old is in
\* none of files, fileToRemote and createdFiles and its directory has no entry
\* for it; new is in createdFiles exactly when old was; the tracker holds for
\* new what it held for old and nothing for old; and what Unmount will upload
\* for new is the cache file that was old's.
C29_RenameMovesFile ==
  [][\A oldPath \in Paths, newPath \in Paths :
       \A mvOK \in BOOLEAN, copyOK \in BOOLEAN, lockOK \in BOOLEAN, delOK \in BOOLEAN :
         (/\ oldPath # newPath
          /\ writeRemote # 0
          /\ ~Has(dirs, oldPath)
          /\ Has(fileToRemote, oldPath)
          /\ RenameStatus(oldPath, newPath, mvOK, copyOK, lockOK) = "OK"
          /\ RenamesFile(oldPath, newPath, mvOK, copyOK, lockOK, delOK))
           => LET w == writeRemote
              IN /\ Has(files', newPath) /\ Has(fileToRemote', newPath)
                 /\ files'[newPath] = files[oldPath]
                 /\ fileToRemote'[newPath] = fileToRemote[oldPath]
                 /\ ~Has(files', oldPath)
                 /\ ~Has(fileToRemote', oldPath)
                 /\ oldPath \notin createdFiles'
                 /\ ~HasEntry(dirContents', oldPath)
                 /\ (newPath \in createdFiles') = (oldPath \in createdFiles)
                 /\ CachedOf(tracker'[w], newPath) = CachedOf(tracker[w], oldPath)
                 /\ ~Has(tracker'[w], oldPath)
                 /\ newPath \in createdFiles' =>
                      /\ Has(localFiles[w], oldPath)
                      /\ Has(localFiles'[w], newPath)
                      /\ localFiles'[w][newPath] = localFiles[w][oldPath]
                      /\ ~Has(localFiles'[w], oldPath)]_vars

\* Rename(oldPath, newPath) of a known directory on a mount with a write
\* remote; the new path may lie in a directory that does not exist.
NewDirPaths == DirPaths \cup {<<"a", "e">>}
Inside(k, d) == Len(k) > Len(d) /\ SubSeq(k, 1, Len(d)) = d
RenamesDir(oldPath, newPath, mvOK) ==
  /\ writeRemote # 0
  /\ Has(dirs, oldPath)
  /\ RenameCall(oldPath, newPath, mvOK, TRUE, TRUE, TRUE, NoListFailure)

\* C30: a Rename of a directory answers ENOSYS unless the directory is in
\* createdDirs and ENOENT unless the directory of the new path exists, and
\* changes nothing then; when it answers OK, dirs, dirContents and createdDirs
\* hold for new what they held for old and nothing for old, and every file
\* inside old is in files, fileToRemote and createdFiles under its new path, as
\* it was under its old one, with its cache file at the new path.
C30_RenameMovesDir ==
  [][\A oldPath \in DirPaths, newPath \in NewDirPaths, mvOK \in BOOLEAN :
       (/\ oldPath # newPath
        /\ writeRemote # 0
        /\ Has(dirs, oldPath))
         => LET st == RenameStatus(oldPath, newPath, mvOK, TRUE, TRUE)
                moved(k) == MovedKey(k, oldPath, newPath)
            IN /\ oldPath \notin createdDirs => st = "ENOSYS"
               /\ (oldPath \in createdDirs /\ ~Has(dirs, Dir(newPath))) => st = "ENOENT"
               /\ (st # "OK" /\ <<nsVars, tracker, localFiles, remoteObjs>>'
                                  # <<nsVars, tracker, localFiles, remoteObjs>>)
                    => ~RenamesDir(oldPath, newPath, mvOK)
               /\ (st = "OK" /\ RenamesDir(oldPath, newPath, mvOK))
                    => /\ Has(dirs', newPath) /\ dirs'[newPath] = dirs[oldPath]
                       /\ Has(dirContents', newPath)
                       /\ newPath \in createdDirs'
                       /\ ~Has(dirs', oldPath)
                       /\ ~Has(dirContents', oldPath)
                       /\ oldPath \notin createdDirs'
                       /\ \A k \in DOMAIN files :
                            Inside(k, oldPath) =>
                              /\ Has(files', moved(k)) /\ ~Has(files', k)
                              /\ Has(fileToRemote', moved(k)) /\ ~Has(fileToRemote', k)
                              /\ IF Has(files', moved(k)) /\ Has(fileToRemote', moved(k))
                                 THEN /\ files'[moved(k)] = files[k]
                                      /\ fileToRemote'[moved(k)] = fileToRemote[k]
                                 ELSE FALSE
                       /\ \A k \in createdFiles :
                            Inside(k, oldPath) =>
                              /\ moved(k) \in createdFiles'
                              /\ k \notin createdFiles'
                              /\ Has(localFiles'[writeRemote], moved(k))]_vars

\* The entries for name in its directory in dc.
EntriesFor(dc, name) ==
  IF Has(dc, Dir(name))
  THEN {i \in DOMAIN dc[Dir(name)] : dc[Dir(name)][i].name = Base(name)}
  ELSE {}
Makes(name, fsOK) == MkdirCall(name, fsOK, NoListFailure)

HasEntries(name) ==
  IF Has(dirContents, name) THEN Len(dirContents[name]) > 0
  ELSE \E i \in DOMAIN dirs[name] :
         Listed(dirs[name][i], name, NoListFailure) # << >>

\* C32: Rmdir answers OK only for a directory that exists and has no
\* entries, listed or not; an Rmdir that answers OK leaves the path in none of
\* dirs, createdDirs and dirContents and without entry in its parent, and an
\* Rmdir that answers an error changes no map.
C32_Rmdir ==
  [][\A name \in MadePaths, fsOK \in BOOLEAN :
       LET st == RmdirStatus(name, fsOK)
       IN /\ (st # "OK" /\ nsVars' # nsVars) => ~RmdirCall(name, fsOK)
          /\ (st = "OK" /\ (fsOK => CacheDirMayExist(name)) /\ RmdirCall(name, fsOK))
               => /\ Has(dirs, name)
                  /\ IF Has(dirs, name) THEN ~HasEntries(name) ELSE FALSE
                  /\ ~Has(dirs', name)
                  /\ ~Has(dirContents', name)
                  /\ name \notin createdDirs'
                  /\ ~HasEntry(dirContents', name)]_vars

UnmountReturns(t) == upc[t] = "cleanup" /\ upc'[t] = "idle"

\* C34: when Unmount returns, dirs, dirContents, files, fileToRemote,
\* createdFiles and createdDirs are empty and the tracker of every remote
\* holds nothing.
C34_UnmountWipes ==
  [][\A t \in Threads :
       UnmountReturns(t) =>
         /\ dirs' = EmptyMap /\ dirContents' = EmptyMap
         /\ files' = EmptyMap /\ fileToRemote' = EmptyMap
         /\ createdFiles' = {} /\ createdDirs' = {}
         /\ \A r \in 1..Len(remotes) : tracker'[r] = EmptyMap]_vars

\* C35: every Unmount that was called returns, or the process exits.
C35_UnmountReturns ==
  \A t \in Threads : (upc[t] # "idle") ~> (upc[t] = "idle" \/ exitCode # -1)

\* The locks goroutine t holds.
HoldsLock(t) == mapMutex = t \/ \E p \in DOMAIN fmutex : fmutex[p] = t

\* C36: a callback that has returned holds no lock; fs.mapMutex is unlocked
\* only by the callback that holds it, and never when it is not locked, which
\* ends the process.
C36_LocksReleasedOnce ==
  [][\A t \in CbThreads :
       /\ cb'[t] = NoCallback => ~HoldsLock(t)'
       /\ (cb'[t] # cb[t] /\ mapMutex # 0 /\ mapMutex' = 0) => mapMutex = t
       /\ cb[t].op # "none" => exitCode' = exitCode]_vars

\* C37: the store of a remote that is not writeable never changes: no copy,
\* delete or upload reaches it.
C37_ReadOnlyUntouched ==
  [][\A r \in 1..Len(remotes) :
       ~remotes[r].write => remoteObjs'[r] = remoteObjs[r]]_vars

\* C38: of the cache file Unmount uploads for a path, no byte of [0, attr.size)
\* is a hole: each was downloaded or written (a byte of a hole reads as 0).
C38_NoHoleUploaded ==
  [][\A e \in uploadLog' \ uploadLog :
       (e.ok /\ Has(files, e.path) /\ Has(localFiles[e.remote], e.path)) =>
         \A i \in 1..Min(files[e.path].size, Len(localFiles[e.remote][e.path])) :
           localFiles[e.remote][e.path][i] # 0]_vars

\* C39: an Open of a file of a cached remote that returns an error leaves
\* attr.size of the file and createdFiles as they were.
C39_FailedOpenKeepsAttr ==
  [][\A flags \in UploadFlags, dlOK \in BOOLEAN :
       (/\ OpenCall(<<"a">>, flags, TRUE, dlOK)
        /\ Has(files, <<"a">>)
        /\ remotes[fileToRemote[<<"a">>]].cacheData
        /\ OpenStatus(<<"a">>, flags, TRUE, dlOK) # "OK")
       => /\ files'[<<"a">>].size = files[<<"a">>].size
          /\ createdFiles' = createdFiles]_vars

\* The cache file of path p in the cache of remote r and its tracker entry.
CacheEntry(r, p) ==
  <<IF Has(localFiles[r], p) THEN <<localFiles[r][p]>> ELSE << >>,
    IF Has(tracker[r], p) THEN <<tracker[r][p]>> ELSE << >> >>

\* C40: a step that creates, changes or deletes the cache file of a path, or
\* changes its tracker entry, is a step of the callback that holds the lock of
\* that path: it is never taken while another callback holds that lock.
C40_CacheChangesUnderLock ==
  [][\A r \in RIdx, p \in Paths :
       (CacheEntry(r, p)' # CacheEntry(r, p) /\ Has(fmutex, p))
         => cb'[fmutex[p]] # cb[fmutex[p]]]_vars

====
